---- MODULE Spec2Model ----
(***************************************************************************)
(* The binary message decoder of loxone-zaptec-proxy (messageDecoder.ts),  *)
(* as a state machine: one decode call over one byte buffer, stepped at    *)
(* every read of the byte producer and every record handed to the element  *)
(* builder.                                                                *)
(*                                                                         *)
(* Values: a byte is an integer 0..255, a byte buffer a sequence of bytes, *)
(* a string a sequence of Unicode code points.  An optional value (a JS    *)
(* value that may be undefined / null / an absent property) is a sequence  *)
(* of length 0 (absent) or 1 (present).                                    *)
(***************************************************************************)
EXTENDS Integers, Sequences, FiniteSets, TLC

\* ---------------------------------------------------------------- bounds
\* Longest raw (arbitrary) byte buffer handed to the decoder.
MaxRawLen == 4
\* Longest sequence of elements encoded and handed to the decoder.
MaxElements == 2
\* Longest sequence of sample records handed to the decoder.
MaxRecords == 4
\* Byte length of the long text carried by a Chars8Text record.
LongText8Len == 200
\* Byte length of the long text carried by a Chars16Text record.
LongText16Len == 300
\* Messages on the subscription when processMessages starts.
MaxMessages == 2
\* Messages receiveMessages hands out in all, redeliveries counted.
MaxDeliveries == 3

\* ------------------------------------------------------ program constants
\* receiver.receiveMessages(10, ...): the most messages of one batch.
MaxBatch == 10

\* ------------------------------------------------------ record type tags
END_ELEMENT == 1
SHORT_XMLNS_ATTRIBUTE == 8
SHORT_ELEMENT == 64
CHARS8TEXT == 152
CHARS16TEXT == 154

None == <<>>
Some(x) == <<x>>

Min(a, b) == IF a < b THEN a ELSE b

\* ------------------------------------------------------------ primitives
\* Uint8Array.prototype.slice(start, end) for non-negative arguments: both
\* ends are clamped to the length, so the result may be shorter than asked.
Slice(a, start, end) ==
    LET s == Min(start, Len(a))
        e == Min(end, Len(a))
    IN  IF e <= s THEN <<>> ELSE SubSeq(a, s + 1, e)

\* Uint8Array.prototype.slice(start): the rest of the array.
SliceFrom(a, start) == Slice(a, start, Len(a))

\* b << 8 on a byte.
ShiftLeft8(b) == b * 256

\* new TextDecoder("utf-8").decode(bytes): not fatal, ignoreBOM false.  A
\* leading EF BB BF is dropped; every maximal ill-formed subsequence becomes
\* U+FFFD (65533).
RECURSIVE Utf8DecodeFrom(_, _)
RECURSIVE Utf8Continue(_, _, _, _, _, _)
Utf8Continue(b, j, need, cp, lower, upper) ==
    IF j > Len(b) THEN <<65533>>
    ELSE IF b[j] < lower \/ b[j] > upper THEN <<65533>> \o Utf8DecodeFrom(b, j)
    ELSE LET cp2 == cp * 64 + (b[j] - 128)
         IN  IF need = 1 THEN <<cp2>> \o Utf8DecodeFrom(b, j + 1)
             ELSE Utf8Continue(b, j + 1, need - 1, cp2, 128, 191)

\* The index after the run of ASCII bytes that starts at i.
AsciiRunEnd(b, i) ==
    LET stops == {j \in i..Len(b) : b[j] > 127}
    IN  IF stops = {} THEN Len(b) + 1
        ELSE CHOOSE j \in stops : \A k \in stops : j <= k

Utf8DecodeFrom(b, i) ==
    IF i > Len(b) THEN <<>>
    ELSE LET c == b[i]
         IN  IF c <= 127
                  THEN LET e == AsciiRunEnd(b, i)
                       IN  SubSeq(b, i, e - 1) \o Utf8DecodeFrom(b, e)
             ELSE IF c >= 194 /\ c <= 223
                  THEN Utf8Continue(b, i + 1, 1, c - 192, 128, 191)
             ELSE IF c >= 224 /\ c <= 239
                  THEN Utf8Continue(b, i + 1, 2, c - 224,
                                    IF c = 224 THEN 160 ELSE 128,
                                    IF c = 237 THEN 159 ELSE 191)
             ELSE IF c >= 240 /\ c <= 244
                  THEN Utf8Continue(b, i + 1, 3, c - 240,
                                    IF c = 240 THEN 144 ELSE 128,
                                    IF c = 244 THEN 143 ELSE 191)
             ELSE <<65533>> \o Utf8DecodeFrom(b, i + 1)

Utf8Decode(bytes) ==
    LET hasBOM == /\ Len(bytes) >= 3
                  /\ bytes[1] = 239 /\ bytes[2] = 187 /\ bytes[3] = 191
    IN  Utf8DecodeFrom(IF hasBOM THEN SliceFrom(bytes, 3) ELSE bytes, 1)

\* ------------------------------------------- fixture encoder (inverse grammar)
\* UTF-8 bytes of a string of Unicode scalar values.
Utf8EncodeChar(c) ==
    IF c < 128 THEN <<c>>
    ELSE IF c < 2048 THEN <<192 + (c \div 64), 128 + (c % 64)>>
    ELSE IF c < 65536
         THEN <<224 + (c \div 4096), 128 + ((c \div 64) % 64), 128 + (c % 64)>>
    ELSE <<240 + (c \div 262144), 128 + ((c \div 4096) % 64),
           128 + ((c \div 64) % 64), 128 + (c % 64)>>

RECURSIVE Utf8Encode(_)
Utf8Encode(str) ==
    IF Len(str) = 0 THEN <<>>
    ELSE IF Len(str) = 1 THEN Utf8EncodeChar(str[1])
    ELSE LET h == Len(str) \div 2
         IN  Utf8Encode(SubSeq(str, 1, h)) \o Utf8Encode(SubSeq(str, h + 1, Len(str)))

\* One record with a one-byte length prefix.
EncodeShort(tag, str) ==
    LET bytes == Utf8Encode(str) IN <<tag, Len(bytes)>> \o bytes

\* A text record: Chars8Text while the length fits one byte, else Chars16Text
\* with the length in two bytes, low byte first.
EncodeText(str) ==
    LET bytes == Utf8Encode(str)
    IN  IF Len(bytes) <= 255 THEN <<CHARS8TEXT, Len(bytes)>> \o bytes
        ELSE <<CHARS16TEXT, (Len(bytes) % 256), (Len(bytes) \div 256)>> \o bytes

\* ShortElement(name) [ShortXmlnsAttribute(xmlns)] [text record] EndElement.
EncodeElement(e) ==
    EncodeShort(SHORT_ELEMENT, e.name)
        \o (IF e.xmlns = None THEN <<>> ELSE EncodeShort(SHORT_XMLNS_ATTRIBUTE, e.xmlns[1]))
        \o (IF e.text = None THEN <<>> ELSE EncodeText(e.text[1]))
        \o <<END_ELEMENT>>

RECURSIVE Encode(_)
Encode(es) == IF es = <<>> THEN <<>> ELSE EncodeElement(Head(es)) \o Encode(Tail(es))

\* ----------------------------------------------------------------- inputs
\* Bytes of the raw buffers: every tag, small lengths, a byte that is no tag.
RawBytes == {0, 1, 2, SHORT_XMLNS_ATTRIBUTE, SHORT_ELEMENT, CHARS8TEXT, CHARS16TEXT, 255}

RECURSIVE SeqsUpTo(_, _)
SeqsUpTo(S, n) ==
    IF n = 0 THEN {<<>>}
    ELSE LET shorter == SeqsUpTo(S, n - 1)
         IN  shorter \cup {Append(s, x) : s \in {t \in shorter : Len(t) = n - 1}, x \in S}

RawBuffers == SeqsUpTo(RawBytes, MaxRawLen)

\* "A", "" as names; "n", "" as namespaces; "", "é" (two bytes) and
\* U+FEFF "h" (a leading byte order mark) as texts.
Names == {<<65>>, <<>>}
Namespaces == {None, Some(<<>>), Some(<<110>>)}
Texts == {None, Some(<<>>), Some(<<233>>), Some(<<65279, 104>>)}
Elements == [name : Names, xmlns : Namespaces, text : Texts]

\* A text of n bytes, all "a".
LongText(n) == [i \in 1..n |-> 97]
LongElements ==
    {[name |-> <<65>>, xmlns |-> None, text |-> Some(LongText(LongText8Len))],
     [name |-> <<65>>, xmlns |-> None, text |-> Some(LongText(LongText16Len))]}

ElementSeqs == SeqsUpTo(Elements, MaxElements) \cup {<<e>> : e \in LongElements}

\* Sample records as bytes: ShortElement("A"), ShortXmlnsAttribute("n"),
\* ShortXmlnsAttribute("m"), Chars8Text("t"), Chars16Text("u"), EndElement.
SampleRecords ==
    {<<SHORT_ELEMENT, 1, 65>>, <<SHORT_XMLNS_ATTRIBUTE, 1, 110>>,
     <<SHORT_XMLNS_ATTRIBUTE, 1, 109>>, <<CHARS8TEXT, 1, 116>>,
     <<CHARS16TEXT, 1, 0, 117>>, <<END_ELEMENT>>}

RECURSIVE Flatten(_)
Flatten(ss) == IF ss = <<>> THEN <<>> ELSE Head(ss) \o Flatten(Tail(ss))

\* Buffers that are any sequence of sample records, well-formed or not.
RecordBuffers == {Flatten(rs) : rs \in SeqsUpTo(SampleRecords, MaxRecords)}

\* ------------------------------------------------------------------ state
VARIABLES
    msg,         \* the buffer given to messageDecoder
    elements,    \* Some(es) when msg is Encode(es), None for a raw buffer
    data,        \* dataProducer: the bytes not yet consumed
    count,       \* dataProducer: the size asked for by the last next(count)
    block,       \* the value of the last prod.next(): Some(bytes) or None (undefined)
    prodDone,    \* dataProducer has run to completion
    takes,       \* how many reads prod.next(n) the call has made
    frameDone,   \* frame.next() has reported done
    pc,          \* where the call stands
    inElement,   \* the main loop is in the inner (open element) loop
    recordType,  \* frameDecoder: the tag byte of the record being read
    length,      \* readString: the declared payload length
    record,      \* the record yielded by frameDecoder: [type, text]
    root,        \* the output array
    returned,    \* Some(root) once the call has returned
    thrown,      \* Some(error) once the call has thrown
    other,       \* the local state of a second call that is not running now
    queue,       \* the ids of the messages the subscription still holds
    body,        \* body[id]: the bytes of message id
    batch,       \* processMessages: the received messages not yet processed
    cur,         \* processMessages: Some(id) of the message being processed
    ppc,         \* where processMessages stands
    logs,        \* what the logger was given for the message being processed
    informed,    \* the informMiniServer calls made for the message being processed
    called,      \* completeMessage has been called for this delivery
    deliveries,  \* how many messages receiveMessages has handed out
    state,       \* ChargerState.state: the value of each key
    cumulativeEnergyDelivered,  \* ChargerState.cumulativeEnergyDelivered
    file,        \* cumulativeEnergy.json: Some(value saved) or None
    loaded,      \* the total loadCumulativeEnergy found when ChargerState was made
    handled,     \* the handleChargerState calls made so far: [id, value, from]
    inFlight,    \* the SET commands sendStateUpdate has not yet delivered
    arrived,     \* the SET commands the Miniserver has received, in order
    accessToken,     \* TokenManager.accessToken
    tokenExpiresAt,  \* TokenManager.tokenExpiresAt: Some(ms) or None for NaN
    now,             \* Date.now()
    tpc,             \* where each getAccessToken caller stands
    tret,            \* what each caller's last getAccessToken call resolved to
    reply,           \* the outcome of each caller's token request once it is in
    requests,        \* how many token requests have been made
    tcalls,          \* how many getAccessToken calls have been made
    retry,           \* whether a refresh failed last, and what succeeded since
    charger          \* the Charger singleton and where its callers stand

\* The local variables of one messageDecoder call.
call == <<msg, elements, data, count, block, prodDone, takes, frameDone, pc, inElement,
          recordType, length, record, root, returned, thrown>>

\* The state of processMessages and of the ChargerState singleton.
pipe == <<queue, body, batch, cur, ppc, logs, informed, called, deliveries, state,
          cumulativeEnergyDelivered, file, loaded, handled>>

\* The SET commands on their way to the Miniserver and those it has got.
mini == <<inFlight, arrived>>

\* The state of the Zaptec API clients.
api == <<accessToken, tokenExpiresAt, now, tpc, tret, reply, requests, tcalls, retry,
         charger>>

vars == <<call, other, pipe, mini, api>>

\* The local state of a call on buffer m that has not made a step.
CallOn(m, es) ==
    [msg |-> m, elements |-> es, data |-> m, count |-> 0, block |-> None,
     prodDone |-> FALSE, takes |-> 0, frameDone |-> FALSE, pc |-> "start",
     inElement |-> FALSE, recordType |-> None, length |-> 0, record |-> None,
     root |-> <<>>, returned |-> None, thrown |-> None]

\* The local state of a call on the empty buffer that has returned.
CallOver ==
    [CallOn(<<>>, None) EXCEPT !.prodDone = TRUE, !.takes = 1, !.frameDone = TRUE,
                               !.pc = "done", !.returned = Some(<<>>)]

\* The local variables of the running call as a record.
Running ==
    [msg |-> msg, elements |-> elements, data |-> data, count |-> count, block |-> block,
     prodDone |-> prodDone, takes |-> takes, frameDone |-> frameDone, pc |-> pc,
     inElement |-> inElement, recordType |-> recordType, length |-> length,
     record |-> record, root |-> root, returned |-> returned, thrown |-> thrown]

\* The running call is in the local state c.
RunningIs(c) ==
    /\ msg = c.msg
    /\ elements = c.elements
    /\ data = c.data
    /\ count = c.count
    /\ block = c.block
    /\ prodDone = c.prodDone
    /\ takes = c.takes
    /\ frameDone = c.frameDone
    /\ pc = c.pc
    /\ inElement = c.inElement
    /\ recordType = c.recordType
    /\ length = c.length
    /\ record = c.record
    /\ root = c.root
    /\ returned = c.returned
    /\ thrown = c.thrown

\* The keys of ChargerState.state with their default values.
DefaultState ==
    [k \in {"EnableCharging", "VehicleConnected", "CurrentChargingPower",
             "AssignedChargingPower", "MeterReading", "ChargingActive"} |-> 0]

\* Numbers are fixed-point: the integer n stands for n / Unit.
Unit == 1000

\* new ChargerState(): the total comes from the cumulative-energy file when
\* there is one, and every state value starts at 0.
Constructed ==
    /\ file \in {None, Some(2 * Unit)}
    /\ cumulativeEnergyDelivered = (IF file = None THEN 0 ELSE file[1])
    /\ loaded = cumulativeEnergyDelivered
    /\ state = DefaultState

\* Callers of tokenManager.getAccessToken and of charger.getChargerId.
Callers == {"charger", "stateManager"}

\* Nothing has failed and nothing is awaited: due tells that the last
\* call or failure was a failure, won that a request has succeeded since the
\* call that failed was made, since[c] that one has succeeded since c asked.
NoRetry == [due |-> FALSE, won |-> FALSE, since |-> [c \in Callers |-> FALSE]]

\* new Charger(): no charger ID, nobody calling.
NewCharger ==
    [chargerId |-> Some([t |-> "str", n |-> 0, s |-> <<>>, m |-> <<>>]),
     pc |-> [c \in Callers |-> "idle"],
     ret |-> [c \in Callers |-> None],
     err |-> [c \in Callers |-> ""],
     requests |-> 0,
     calls |-> 0,
     by |-> None,
     first |-> None,
     retry |-> NoRetry]

\* TokenManager as constructed, nobody calling it.
NoApi ==
    /\ accessToken = Some([t |-> "str", n |-> 0, s |-> <<>>, m |-> <<>>])
    /\ tokenExpiresAt = Some(0)
    /\ now = 0
    /\ tpc = [c \in Callers |-> "idle"]
    /\ tret = [c \in Callers |-> None]
    /\ reply = [c \in Callers |-> None]
    /\ requests = 0
    /\ tcalls = 0
    /\ retry = NoRetry
    /\ charger = NewCharger

\* processMessages is not running and ChargerState is as constructed.
NoPipeline ==
    /\ queue = {}
    /\ body = <<>>
    /\ batch = <<>>
    /\ cur = None
    /\ ppc = "off"
    /\ logs = <<>>
    /\ informed = <<>>
    /\ called = FALSE
    /\ deliveries = 0
    /\ state = DefaultState
    /\ cumulativeEnergyDelivered = 0
    /\ file = None
    /\ loaded = 0
    /\ handled = <<>>
    /\ inFlight = {}
    /\ arrived = <<>>
    /\ NoApi

\* Bytes consumed so far.
Offset == Len(msg) - Len(data)

Init ==
    /\ \/ \E m \in RawBuffers \cup RecordBuffers : RunningIs(CallOn(m, None))
       \/ \E es \in ElementSeqs : RunningIs(CallOn(Encode(es), Some(es)))
    /\ other = CallOver
    /\ NoPipeline

\* ---------------------------------------------------------- dataProducer
\* prod.next(n).value: undefined when the generator is finished or finishes
\* now because no byte is left; else the first n bytes left, or fewer.
ProdNextValue(n) ==
    IF prodDone \/ Len(data) = 0 THEN None ELSE Some(Slice(data, 0, n))

\* Mutant of ProdNextData: the bytes handed out are not dropped.
ProdNextDataStuck(n) == data

\* Mutant of ProdNextData: the rest is cut from the whole buffer, not from
\* the bytes left.
ProdNextDataFromStart(n) == SliceFrom(msg, n)

ProdNextData(n) ==
    IF prodDone \/ Len(data) = 0 THEN data ELSE SliceFrom(data, n)

ProdNext(n) ==
    /\ count' = n
    /\ block' = ProdNextValue(n)
    /\ data' = ProdNextData(n)
    /\ prodDone' = (prodDone \/ Len(data) = 0)

\* prod.next(n) as a read of n bytes made by frameDecoder or readString.
Take(n) ==
    /\ ProdNext(n)
    /\ takes' = takes + 1

\* ----------------------------------------------------------------- errors
EndOfLengthError == [message |-> "Unexpected end of data while reading string length.", byte |-> None]
EndOfStringError == [message |-> "Unexpected end of data while reading string.", byte |-> None]
UnknownRecordTypeError(b) == [message |-> "Unknown record type", byte |-> Some(b)]

\* Mutant of Throw: the error is recorded and the call reads on.
ThrowAndReadOn(e) ==
    /\ thrown' = Some(e)
    /\ pc' = "frame"

\* throw new Error(...): nothing catches it inside messageDecoder, so the
\* call ends there.
Throw(e) ==
    /\ thrown' = Some(e)
    /\ pc' = "done"

PayloadTags == {SHORT_ELEMENT, SHORT_XMLNS_ATTRIBUTE, CHARS8TEXT, CHARS16TEXT}

\* text || "": an empty or null payload gives the empty string.
OrEmpty(text) == IF text = None THEN <<>> ELSE text[1]

\* --------------------------------------------------------------- the call
\* const prod = dataProducer(msg); prod.next(): the generator runs to its
\* first yield (an empty block), or to its end when msg is empty.
Start ==
    /\ pc = "start"
    /\ ProdNext(0)
    /\ pc' = "frame"
    /\ UNCHANGED <<other, pipe, mini, api, msg, elements, takes, frameDone, inElement, recordType, length, record,
                   root, returned, thrown>>

\* Mutant of Dispatch: a byte that is no record type is skipped.
DispatchSkipUnknown(tag) ==
    IF tag \in PayloadTags
    THEN /\ pc' = "readLength"
         /\ UNCHANGED <<record, thrown>>
    ELSE IF tag = END_ELEMENT
    THEN /\ record' = Some([type |-> tag, text |-> None])
         /\ pc' = "record"
         /\ UNCHANGED thrown
    ELSE /\ pc' = "frame"
         /\ UNCHANGED <<record, thrown>>

\* Mutant of Dispatch: an EndElement record is yielded with an empty string.
DispatchEndWithText(tag) ==
    IF tag \in PayloadTags
    THEN /\ pc' = "readLength"
         /\ UNCHANGED <<record, thrown>>
    ELSE IF tag = END_ELEMENT
    THEN /\ record' = Some([type |-> tag, text |-> Some(<<>>)])
         /\ pc' = "record"
         /\ UNCHANGED thrown
    ELSE /\ Throw(UnknownRecordTypeError(tag))
         /\ UNCHANGED record

\* frameDecoder, the dispatch on the tag byte: a payload tag goes on to
\* readString, END_ELEMENT is yielded at once, any other byte throws.
Dispatch(tag) ==
    IF tag \in PayloadTags
    THEN /\ pc' = "readLength"
         /\ UNCHANGED <<record, thrown>>
    ELSE IF tag = END_ELEMENT
    THEN /\ record' = Some([type |-> tag, text |-> None])
         /\ pc' = "record"
         /\ UNCHANGED thrown
    ELSE /\ Throw(UnknownRecordTypeError(tag))
         /\ UNCHANGED record

\* Mutant of FrameNext: with no byte left the loop goes round again.
FrameNextSpins ==
    /\ pc = "frame"
    /\ LET result == ProdNextValue(1)
       IN  IF result = None
           THEN UNCHANGED <<data, count, block, prodDone, takes, frameDone, pc, recordType,
                            record, thrown>>
           ELSE /\ Take(1)
                /\ recordType' = Some(result[1][1])
                /\ frameDone' = frameDone
                /\ Dispatch(result[1][1])
    /\ UNCHANGED <<other, pipe, mini, api, msg, elements, inElement, length, root, returned>>

\* frameDecoder, one turn of its loop: no byte left ends the record stream,
\* else the byte read is the tag of the next record.
FrameNext ==
    /\ pc = "frame"
    /\ Take(1)
    /\ LET result == ProdNextValue(1)
       IN  IF result = None
           THEN /\ frameDone' = TRUE
                /\ pc' = "end"
                /\ UNCHANGED <<recordType, record, thrown>>
           ELSE /\ recordType' = Some(result[1][1])
                /\ frameDone' = frameDone
                /\ Dispatch(result[1][1])
    /\ UNCHANGED <<other, pipe, mini, api, msg, elements, inElement, length, root, returned>>

\* Mutant of LengthMissing: only a missing block is noticed, not a short one.
LengthMissingOnlyUndefined(b, bits16) == b = None

\* !b || b.length < (bits16 ? 2 : 1): the length read is missing or short.
LengthMissing(b, bits16) == b = None \/ Len(b[1]) < (IF bits16 THEN 2 ELSE 1)

\* Mutant of StringLength: the two length bytes taken high byte first.
StringLengthBigEndian(b, bits16) ==
    IF bits16 THEN ShiftLeft8(b[1]) + (IF Len(b) >= 2 THEN b[2] ELSE 0) ELSE b[1]

\* The declared length: one byte, or two bytes low byte first (a byte that
\* is not there shifts to 0).
StringLength(b, bits16) ==
    IF bits16 THEN b[1] + ShiftLeft8(IF Len(b) >= 2 THEN b[2] ELSE 0) ELSE b[1]

\* readString, the length prefix.
ReadLength ==
    /\ pc = "readLength"
    /\ LET bits16 == (recordType = Some(CHARS16TEXT))
           n == IF bits16 THEN 2 ELSE 1
           b == ProdNextValue(n)
       IN  /\ Take(n)
           /\ IF LengthMissing(b, bits16)
              THEN /\ Throw(EndOfLengthError)
                   /\ UNCHANGED length
              ELSE /\ length' = StringLength(b[1], bits16)
                   /\ pc' = "readPayload"
                   /\ UNCHANGED thrown
    /\ UNCHANGED <<other, pipe, mini, api, msg, elements, frameDone, inElement, recordType, record, root, returned>>

\* readString, the payload, and the yield of the record by frameDecoder.
ReadPayload ==
    /\ pc = "readPayload"
    /\ Take(length)
    /\ LET strBytes == ProdNextValue(length)
       IN  IF strBytes = None
           THEN /\ Throw(EndOfStringError)
                /\ UNCHANGED record
           ELSE /\ record' = Some([type |-> recordType[1],
                                   text |-> Some(Utf8Decode(strBytes[1]))])
                /\ pc' = "record"
                /\ UNCHANGED thrown
    /\ UNCHANGED <<other, pipe, mini, api, msg, elements, frameDone, inElement, recordType, length, root, returned>>

\* Mutant of PushElement: the new element is put in front.
PushElementFront(r, text) ==
    <<[name |-> OrEmpty(text), xmlns |-> None, text |-> None]>> \o r

\* const element = { name: text || "" }; root.push(element).
PushElement(r, text) == Append(r, [name |-> OrEmpty(text), xmlns |-> None, text |-> None])

\* Mutant of TopLevelRecord: a record that opens no element is passed over.
TopLevelRecordSkips ==
    /\ pc = "record"
    /\ ~inElement
    /\ LET r == record[1]
       IN  IF r.type = SHORT_ELEMENT
           THEN /\ root' = PushElement(root, r.text)
                /\ inElement' = TRUE
           ELSE UNCHANGED <<root, inElement>>
    /\ pc' = "frame"
    /\ UNCHANGED <<other, pipe, mini, api, msg, elements, data, count, block, prodDone, takes, frameDone, recordType,
                   length, record, returned, thrown>>

\* The main loop on a record while no element is open.
TopLevelRecord ==
    /\ pc = "record"
    /\ ~inElement
    /\ LET r == record[1]
       IN  IF r.type = SHORT_ELEMENT
           THEN /\ root' = PushElement(root, r.text)
                /\ inElement' = TRUE
                /\ pc' = "frame"
                /\ UNCHANGED thrown
           ELSE /\ Throw(UnknownRecordTypeError(r.type))
                /\ UNCHANGED <<root, inElement>>
    /\ UNCHANGED <<other, pipe, mini, api, msg, elements, data, count, block, prodDone, takes, frameDone, recordType,
                   length, record, returned>>

\* Mutant of SetXmlns: a namespace already set is kept.
SetXmlnsOnce(r, text) ==
    [r EXCEPT ![Len(r)].xmlns = IF @ = None THEN Some(OrEmpty(text)) ELSE @]

\* element.xmlns = text || "" on the element pushed last.
SetXmlns(r, text) == [r EXCEPT ![Len(r)].xmlns = Some(OrEmpty(text))]

\* Mutant of SetText: the text lands in xmlns.
SetTextAsXmlns(r, text) == [r EXCEPT ![Len(r)].xmlns = Some(OrEmpty(text))]

\* Mutant of SetText: the text lands on the first element of the output.
SetTextOnFirst(r, text) == [r EXCEPT ![1].text = Some(OrEmpty(text))]

\* element.text = text || "" on the element pushed last.
SetText(r, text) == [r EXCEPT ![Len(r)].text = Some(OrEmpty(text))]

\* Mutant of ElementRecord: a ShortElement inside an element opens a second
\* element.
ElementRecordNests ==
    /\ pc = "record"
    /\ inElement
    /\ LET r == record[1]
       IN  /\ root' = IF r.type = SHORT_XMLNS_ATTRIBUTE THEN SetXmlns(root, r.text)
                      ELSE IF r.type \in {CHARS8TEXT, CHARS16TEXT} THEN SetText(root, r.text)
                      ELSE IF r.type = SHORT_ELEMENT THEN PushElement(root, r.text)
                      ELSE root
           /\ inElement' = (r.type # END_ELEMENT)
    /\ pc' = "frame"
    /\ UNCHANGED <<other, pipe, mini, api, msg, elements, data, count, block, prodDone, takes, frameDone, recordType,
                   length, record, returned, thrown>>

\* The inner loop on a record while an element is open.
ElementRecord ==
    /\ pc = "record"
    /\ inElement
    /\ LET r == record[1]
       IN  IF r.type = SHORT_XMLNS_ATTRIBUTE
           THEN /\ root' = SetXmlns(root, r.text)
                /\ pc' = "frame"
                /\ UNCHANGED <<inElement, thrown>>
           ELSE IF r.type \in {CHARS8TEXT, CHARS16TEXT}
           THEN /\ root' = SetText(root, r.text)
                /\ pc' = "frame"
                /\ UNCHANGED <<inElement, thrown>>
           ELSE IF r.type = END_ELEMENT
           THEN /\ inElement' = FALSE
                /\ pc' = "frame"
                /\ UNCHANGED <<root, thrown>>
           ELSE /\ Throw(UnknownRecordTypeError(r.type))
                /\ UNCHANGED <<root, inElement>>
    /\ UNCHANGED <<other, pipe, mini, api, msg, elements, data, count, block, prodDone, takes, frameDone, recordType,
                   length, record, returned>>

\* Mutant of EndOfRecords: the end of the records is an error.
EndOfRecordsThrows ==
    /\ pc = "end"
    /\ Throw(EndOfStringError)
    /\ UNCHANGED <<other, pipe, mini, api, msg, elements, data, count, block, prodDone, takes, frameDone, inElement,
                   recordType, length, record, root, returned>>

\* frame.next() reported done: the inner loop, when it is the one running,
\* breaks, the outer loop breaks, and root is returned.  inElement keeps
\* telling which loop met the end of the records.
EndOfRecords ==
    /\ pc = "end"
    /\ returned' = Some(root)
    /\ pc' = "done"
    /\ UNCHANGED <<other, pipe, mini, api, msg, elements, data, count, block, prodDone, takes, frameDone, inElement,
                   recordType, length, record, root, thrown>>

Next ==
    \/ Start
    \/ FrameNext
    \/ ReadLength
    \/ ReadPayload
    \/ TopLevelRecord
    \/ ElementRecord
    \/ EndOfRecords

Spec == Init /\ [][Next]_vars

\* The call is synchronous code: while a step is possible, one is taken.
FairSpec == Spec /\ WF_vars(Next)

\* ---------------------------------------------------------- two calls
\* The running call takes on the local state c.
Resume(c) ==
    /\ msg' = c.msg
    /\ elements' = c.elements
    /\ data' = c.data
    /\ count' = c.count
    /\ block' = c.block
    /\ prodDone' = c.prodDone
    /\ takes' = c.takes
    /\ frameDone' = c.frameDone
    /\ pc' = c.pc
    /\ inElement' = c.inElement
    /\ recordType' = c.recordType
    /\ length' = c.length
    /\ record' = c.record
    /\ root' = c.root
    /\ returned' = c.returned
    /\ thrown' = c.thrown

\* Mutant of Switch: root is one array shared by the calls instead of a
\* local of each.
SwitchSharedRoot ==
    /\ Resume([other EXCEPT !.root = root])
    /\ other' = Running
    /\ UNCHANGED <<pipe, mini, api>>

\* The second call runs on and the running call waits: every variable of
\* messageDecoder is a local of the call (prod, frame, root and the loop
\* variables), so each call keeps its own.
Switch ==
    /\ Resume(other)
    /\ other' = Running
    /\ UNCHANGED <<pipe, mini, api>>

\* The empty buffer, a full element, an element left open, two elements, a
\* byte that is no tag, a string cut short, a text outside any element.
PairBuffers ==
    {<<>>,
     Encode(<<[name |-> <<65>>, xmlns |-> Some(<<110>>), text |-> Some(<<233>>)]>>),
     <<SHORT_ELEMENT, 1, 65>>,
     <<SHORT_ELEMENT, 1, 65, END_ELEMENT, SHORT_ELEMENT, 0, END_ELEMENT>>,
     <<2>>,
     <<SHORT_ELEMENT, 5, 65>>,
     <<CHARS8TEXT, 1, 116>>}

PairInit ==
    /\ \E m \in PairBuffers : RunningIs(CallOn(m, None))
    /\ \E m \in PairBuffers : other = CallOn(m, None)
    /\ NoPipeline

PairNext ==
    \/ Next
    \/ Switch

\* Two calls on their own buffers, their steps interleaved in any way.
PairSpec == PairInit /\ [][PairNext]_vars

\* ------------------------------------------------- strings and numbers
\* A digit (the code points of "0" to "9").
IsDigit(c) == c \in 48..57

\* JSON white space: space, tab, line feed, carriage return.
IsWs(c) == c \in {32, 9, 10, 13}

RECURSIVE SkipWs(_, _)
SkipWs(t, i) == IF i <= Len(t) /\ IsWs(t[i]) THEN SkipWs(t, i + 1) ELSE i

\* The first index from i on that holds no digit.
RECURSIVE DigitsEnd(_, _)
DigitsEnd(t, i) == IF i <= Len(t) /\ IsDigit(t[i]) THEN DigitsEnd(t, i + 1) ELSE i

\* The number written by the digits t[i..j-1].
RECURSIVE DigitsValue(_, _, _)
DigitsValue(t, i, j) ==
    IF j <= i THEN 0 ELSE DigitsValue(t, i, j - 1) * 10 + (t[j - 1] - 48)

RECURSIVE Pow10(_)
Pow10(k) == IF k = 0 THEN 1 ELSE 10 * Pow10(k - 1)

\* The fraction written by the digits t[i..j-1] after a point, in units of
\* 1 / Unit; digits past the third are dropped.
FractionValue(t, i, j) ==
    LET k == Min(j - i, 3)
    IN  DigitsValue(t, i, i + k) * Pow10(3 - k)

\* A sign, digits and a fraction read from t at i as JavaScript's parseFloat
\* and parseInt read them: [found, value, end].  Exponents are not read.
ReadDecimal(t, i, withFraction) ==
    LET signed == i <= Len(t) /\ t[i] \in {43, 45}
        a == IF signed THEN i + 1 ELSE i
        b == DigitsEnd(t, a)
        point == withFraction /\ b <= Len(t) /\ t[b] = 46
        c == IF point THEN DigitsEnd(t, b + 1) ELSE b
        frac == IF point THEN FractionValue(t, b + 1, c) ELSE 0
        magnitude == DigitsValue(t, a, b) * Unit + frac
    IN  [found |-> b > a \/ (point /\ c > b + 1),
         value |-> IF signed /\ t[i] = 45 THEN 0 - magnitude ELSE magnitude,
         end |-> c]

\* parseInt(s): Some(integer) or None for NaN.
ParseInt(s) ==
    LET r == ReadDecimal(s, SkipWs(s, 1), FALSE)
    IN  IF r.found THEN Some(r.value) ELSE None

\* parseFloat(s): Some(number) or None for NaN.
ParseFloat(s) ==
    LET r == ReadDecimal(s, SkipWs(s, 1), TRUE)
    IN  IF r.found THEN Some(r.value) ELSE None

\* x || d for a number x: d when x is NaN or 0.
NumberOr(x, d) == IF x = None \/ x = Some(0) THEN d ELSE x[1]

RECURSIVE IntDigits(_)
IntDigits(n) == IF n < 10 THEN <<48 + n>> ELSE IntDigits(n \div 10) \o <<48 + (n % 10)>>

RECURSIVE TrimZeros(_)
TrimZeros(s) ==
    IF Len(s) > 0 /\ s[Len(s)] = 48 THEN TrimZeros(SubSeq(s, 1, Len(s) - 1)) ELSE s

\* Number.prototype.toString for a number with up to three decimals.
NumToString(n) ==
    LET a == IF n < 0 THEN 0 - n ELSE n
        frac == a % Unit
        padded == SubSeq(IntDigits(Unit + frac), 2, 4)
    IN  (IF n < 0 THEN <<45>> ELSE <<>>)
        \o IntDigits(a \div Unit)
        \o (IF frac = 0 THEN <<>> ELSE <<46>> \o TrimZeros(padded))

\* ------------------------------------------------------------------ JSON
\* A JSON value: t is its type, n a number (or 0/1 for false/true), s a
\* string, m the members [k, v] of an object in the order written, or the
\* items of an array, each with the empty key.
JNull == [t |-> "null", n |-> 0, s |-> <<>>, m |-> <<>>]
JBool(b) == [t |-> "bool", n |-> IF b THEN 1 ELSE 0, s |-> <<>>, m |-> <<>>]
JNum(x) == [t |-> "num", n |-> x, s |-> <<>>, m |-> <<>>]
JStr(str) == [t |-> "str", n |-> 0, s |-> str, m |-> <<>>]
JObj(members) == [t |-> "obj", n |-> 0, s |-> <<>>, m |-> members]
JArr(items) == [t |-> "arr", n |-> 0, s |-> <<>>, m |-> items]

\* The code points of the words JSON.parse and String() know.
WordNull == <<110, 117, 108, 108>>
WordTrue == <<116, 114, 117, 101>>
WordFalse == <<102, 97, 108, 115, 101>>
WordUndefined == <<117, 110, 100, 101, 102, 105, 110, 101, 100>>
WordObject == <<91, 111, 98, 106, 101, 99, 116, 32, 79, 98, 106, 101, 99, 116, 93>>

\* The word w stands in t at i.
WordAt(t, i, w) == i + Len(w) - 1 <= Len(t) /\ SubSeq(t, i, i + Len(w) - 1) = w

\* What a parsing step gives: the value and the index after it, or no value.
Parsed(v, pos) == [ok |-> TRUE, v |-> v, pos |-> pos]
NotParsed == [ok |-> FALSE, v |-> JNull, pos |-> 0]

\* The index of the quote that closes the string whose characters start at
\* j, or 0 when there is none.  Escape sequences are not read: no text given
\* to the parser holds a backslash.
RECURSIVE StringEnd(_, _)
StringEnd(t, j) ==
    IF j > Len(t) THEN 0
    ELSE IF t[j] = 34 THEN j
    ELSE IF t[j] = 92 \/ t[j] < 32 THEN 0
    ELSE StringEnd(t, j + 1)

\* A JSON number at i: -? int frac?, no leading zeros, no exponent.
ParseJsonNumber(t, i) ==
    LET a == IF t[i] = 45 THEN i + 1 ELSE i
        b == DigitsEnd(t, a)
        r == ReadDecimal(t, i, TRUE)
    IN  IF b = a \/ (b - a > 1 /\ t[a] = 48) THEN NotParsed
        ELSE IF b <= Len(t) /\ t[b] = 46 /\ DigitsEnd(t, b + 1) = b + 1 THEN NotParsed
        ELSE Parsed(JNum(r.value), r.end)

\* JSON.parse on strings, numbers, null, true, false and the objects and
\* arrays of them.
RECURSIVE ParseJsonValue(_, _)
RECURSIVE ParseMembers(_, _, _)
RECURSIVE ParseItems(_, _, _)
ParseJsonValue(t, i) ==
    IF i > Len(t) THEN NotParsed
    ELSE IF t[i] = 34
    THEN LET e == StringEnd(t, i + 1)
         IN  IF e = 0 THEN NotParsed ELSE Parsed(JStr(SubSeq(t, i + 1, e - 1)), e + 1)
    ELSE IF t[i] = 123
    THEN LET j == SkipWs(t, i + 1)
         IN  IF j <= Len(t) /\ t[j] = 125 THEN Parsed(JObj(<<>>), j + 1)
             ELSE ParseMembers(t, j, <<>>)
    ELSE IF t[i] = 91
    THEN LET j == SkipWs(t, i + 1)
         IN  IF j <= Len(t) /\ t[j] = 93 THEN Parsed(JArr(<<>>), j + 1)
             ELSE ParseItems(t, j, <<>>)
    ELSE IF t[i] = 45 \/ IsDigit(t[i]) THEN ParseJsonNumber(t, i)
    ELSE IF WordAt(t, i, WordNull) THEN Parsed(JNull, i + 4)
    ELSE IF WordAt(t, i, WordTrue) THEN Parsed(JBool(TRUE), i + 4)
    ELSE IF WordAt(t, i, WordFalse) THEN Parsed(JBool(FALSE), i + 5)
    ELSE NotParsed

\* The members of an object from the key at i on, after the members acc.
ParseMembers(t, i, acc) ==
    IF i > Len(t) \/ t[i] # 34 THEN NotParsed
    ELSE LET e == StringEnd(t, i + 1)
             c == SkipWs(t, e + 1)
         IN  IF e = 0 \/ c > Len(t) \/ t[c] # 58 THEN NotParsed
             ELSE LET r == ParseJsonValue(t, SkipWs(t, c + 1))
                      n == SkipWs(t, r.pos)
                      more == Append(acc, [k |-> SubSeq(t, i + 1, e - 1), v |-> r.v])
                  IN  IF ~r.ok \/ n > Len(t) THEN NotParsed
                      ELSE IF t[n] = 125 THEN Parsed(JObj(more), n + 1)
                      ELSE IF t[n] = 44 THEN ParseMembers(t, SkipWs(t, n + 1), more)
                      ELSE NotParsed

\* The items of an array from the value at i on, after the items acc.
ParseItems(t, i, acc) ==
    LET r == ParseJsonValue(t, i)
        n == SkipWs(t, r.pos)
        more == Append(acc, [k |-> <<>>, v |-> r.v])
    IN  IF ~r.ok \/ n > Len(t) THEN NotParsed
        ELSE IF t[n] = 93 THEN Parsed(JArr(more), n + 1)
        ELSE IF t[n] = 44 THEN ParseItems(t, SkipWs(t, n + 1), more)
        ELSE NotParsed

\* JSON.parse(text): Some(value), or None when it throws a SyntaxError.
JsonParse(t) ==
    LET r == ParseJsonValue(t, SkipWs(t, 1))
    IN  IF r.ok /\ SkipWs(t, r.pos) = Len(t) + 1 THEN Some(r.v) ELSE None

\* v[key] for a value v that is not null: Some(value) or None (undefined).
\* Of two members with one key the later one counts.
RECURSIVE Member(_, _)
Member(members, key) ==
    IF members = <<>> THEN None
    ELSE IF members[Len(members)].k = key THEN Some(members[Len(members)].v)
    ELSE Member(SubSeq(members, 1, Len(members) - 1), key)

\* String(x) for x a JSON value or undefined (None).
RECURSIVE JsString(_)
RECURSIVE JoinItems(_)
JsString(x) ==
    IF x = None THEN WordUndefined
    ELSE LET v == x[1]
         IN  IF v.t = "str" THEN v.s
             ELSE IF v.t = "num" THEN NumToString(v.n)
             ELSE IF v.t = "bool" THEN (IF v.n = 1 THEN WordTrue ELSE WordFalse)
             ELSE IF v.t = "null" THEN WordNull
             ELSE IF v.t = "arr" THEN JoinItems(v.m)
             ELSE WordObject

\* Array.prototype.join: the items as strings with commas between them,
\* null as the empty string.
JoinItems(items) ==
    IF items = <<>> THEN <<>>
    ELSE LET last == items[Len(items)].v
             str == IF last.t = "null" THEN <<>> ELSE JsString(Some(last))
         IN  IF Len(items) = 1 THEN str
             ELSE JoinItems(SubSeq(items, 1, Len(items) - 1)) \o <<44>> \o str

\* ---------------------------------------------------------- ChargerState
\* What the logger is given: a level, the text, the error and the message
\* body passed along with it.
LogEntry(level, text, err, content) ==
    [level |-> level, text |-> text, err |-> err, content |-> content]

Log(level, text) == LogEntry(level, text, None, <<>>)

\* The ChargerState singleton with what it has sent and logged, and on whose
\* behalf it is called.
ChargerNow ==
    [state |-> state, total |-> cumulativeEnergyDelivered, file |-> file,
     informed |-> informed, logs |-> logs, handled |-> handled,
     inFlight |-> inFlight, from |-> cur]

\* The Loxone input and its type for each state key.
LoxoneID ==
    [EnableCharging |-> "Ec", VehicleConnected |-> "Vc", CurrentChargingPower |-> "Cp",
     AssignedChargingPower |-> "Lm1", MeterReading |-> "Mr", ChargingActive |-> "Cac"]

InputType ==
    [EnableCharging |-> "digital", VehicleConnected |-> "digital",
     CurrentChargingPower |-> "analog", AssignedChargingPower |-> "analog",
     MeterReading |-> "analog", ChargingActive |-> "digital"]

\* On, Off.
WordOn == <<79, 110>>
WordOff == <<79, 102, 102>>

\* The SET command informMiniServer builds for a key and a value; at tells
\* the updateState call it comes from.
Command(key, value, at) ==
    [key |-> key, id |-> LoxoneID[key],
     arg |-> IF InputType[key] = "digital"
             THEN (IF value # 0 THEN WordOn ELSE WordOff)
             ELSE NumToString(value),
     at |-> at]

\* informMiniServer(key, value) is called and not awaited: its command is
\* on its way when updateState returns.
InformMiniServer(cs, key, value) ==
    [cs EXCEPT !.informed = Append(@, <<key, value>>),
               !.inFlight = @ \cup {Command(key, value,
                                            <<Len(cs.handled), Len(cs.informed) + 1>>)}]

\* updateState(key, value): the value is stored and the Miniserver informed.
UpdateState(cs, key, value) ==
    IF key \in DOMAIN cs.state
    THEN InformMiniServer([cs EXCEPT !.state[key] = value], key, value)
    ELSE [cs EXCEPT !.logs = Append(@, Log("console.warn", "State with key not found."))]

\* Mutant of UpdateChargerOperationMode: an unknown mode is taken for mode 1.
UpdateModeUnknownAsOne(cs, mode) ==
    LET c == [cs EXCEPT !.logs = Append(@, Log("info", "Update ChargerOperationMode"))]
        Both(vc, ca) ==
            UpdateState(UpdateState(c, "VehicleConnected", vc), "ChargingActive", ca)
    IN  IF mode = 2 * Unit \/ mode = 5 * Unit THEN Both(1 * Unit, 0)
        ELSE IF mode = 3 * Unit THEN Both(1 * Unit, 1 * Unit)
        ELSE Both(0, 0)

\* Mutant of UpdateChargerOperationMode: mode 1 leaves ChargingActive alone.
UpdateModeOneKeepsActive(cs, mode) ==
    LET c == [cs EXCEPT !.logs = Append(@, Log("info", "Update ChargerOperationMode"))]
        Both(vc, ca) ==
            UpdateState(UpdateState(c, "VehicleConnected", vc), "ChargingActive", ca)
    IN  IF mode = 1 * Unit THEN UpdateState(c, "VehicleConnected", 0)
        ELSE IF mode = 2 * Unit \/ mode = 5 * Unit THEN Both(1 * Unit, 0)
        ELSE IF mode = 3 * Unit THEN Both(1 * Unit, 1 * Unit)
        ELSE [c EXCEPT !.logs = Append(@, Log("console.warn", "Unknown ChargerOperationMode"))]

\* updateChargerOperationMode(mode).
UpdateChargerOperationMode(cs, mode) ==
    LET c == [cs EXCEPT !.logs = Append(@, Log("info", "Update ChargerOperationMode"))]
        Both(vc, ca) ==
            UpdateState(UpdateState(c, "VehicleConnected", vc), "ChargingActive", ca)
    IN  IF mode = 1 * Unit THEN Both(0, 0)
        ELSE IF mode = 2 * Unit THEN Both(1 * Unit, 0)
        ELSE IF mode = 3 * Unit THEN Both(1 * Unit, 1 * Unit)
        ELSE IF mode = 5 * Unit THEN Both(1 * Unit, 0)
        ELSE [c EXCEPT !.logs = Append(@, Log("console.warn", "Unknown ChargerOperationMode"))]

\* Mutant of UpdateCurrentChargingPower: the assigned power has no floor.
UpdatePowerNoFloor(cs, totalChargePower) ==
    LET c == [cs EXCEPT !.logs = Append(@, Log("info", "Update ChargerChargingPower"))]
        powerInKw == totalChargePower \div 1000
    IN  UpdateState(UpdateState(c, "CurrentChargingPower", powerInKw),
                    "AssignedChargingPower", powerInKw)

\* updateCurrentChargingPower(totalChargePower): watts to kilowatts, and an
\* assigned power of 4 kW at least.
UpdateCurrentChargingPower(cs, totalChargePower) ==
    LET c == [cs EXCEPT !.logs = Append(@, Log("info", "Update ChargerChargingPower"))]
        powerInKw == totalChargePower \div 1000
        assignedPowerInKw == IF powerInKw < 4 * Unit THEN 4 * Unit ELSE powerInKw
    IN  UpdateState(UpdateState(c, "CurrentChargingPower", powerInKw),
                    "AssignedChargingPower", assignedPowerInKw)

\* Mutant of UpdateTotalEnergyDelivered: the total is replaced, not added to.
UpdateTotalEnergyOverwrites(cs, delivered) ==
    LET c == [cs EXCEPT !.logs = Append(@, Log("info", "Update Total Energy Delivered")),
                        !.total = delivered]
        u == UpdateState(c, "MeterReading", c.total)
    IN  [u EXCEPT !.file = Some(u.total),
                  !.logs = Append(@, Log("info", "Saved cumulative energy delivered"))]

\* updateTotalEnergyDelivered(delivered): the total grows, MeterReading
\* follows, and the total is written to the file.
UpdateTotalEnergyDelivered(cs, delivered) ==
    LET c == [cs EXCEPT !.logs = Append(@, Log("info", "Update Total Energy Delivered")),
                        !.total = @ + delivered]
        u == UpdateState(c, "MeterReading", c.total)
    IN  [u EXCEPT !.file = Some(u.total),
                  !.logs = Append(@, Log("info", "Saved cumulative energy delivered"))]

\* 710, 513, 553 as strings.
IdMode == <<55, 49, 48>>
IdPower == <<53, 49, 51>>
IdEnergy == <<53, 53, 51>>

\* handleChargerState(id, valueAsString); valueAsString is whatever the
\* message held under that key, None when it held nothing.
HandleChargerState(cs0, id, valueAsString) ==
    LET cs == [cs0 EXCEPT !.handled =
                   Append(@, [id |-> id, value |-> valueAsString, from |-> cs0.from])]
    IN  IF id = IdMode
        THEN UpdateChargerOperationMode(
                 cs, NumberOr(ParseInt(JsString(valueAsString)), 1 * Unit))
        ELSE IF id = IdPower
        THEN UpdateCurrentChargingPower(
                 cs, NumberOr(ParseFloat(JsString(valueAsString)), 0))
        ELSE IF id = IdEnergy
        THEN UpdateTotalEnergyDelivered(
                 cs, NumberOr(ParseFloat(JsString(valueAsString)), 0))
        ELSE [cs EXCEPT !.logs = Append(@, Log("info", "Not interested in this ID."))]

\* ------------------------------------------------------- processMessages
\* StateId, ValueAsString.
KeyStateId == <<83, 116, 97, 116, 101, 73, 100>>
KeyValueAsString == <<86, 97, 108, 117, 101, 65, 115, 83, 116, 114, 105, 110, 103>>

\* {"StateId":710,"ValueAsString":"3"}
TextMode3 ==
    <<123, 34, 83, 116, 97, 116, 101, 73, 100, 34, 58, 55, 49, 48, 44, 34, 86, 97, 108,
      117, 101, 65, 115, 83, 116, 114, 105, 110, 103, 34, 58, 34, 51, 34, 125>>

\* {"StateId":553,"ValueAsString":"0.5"}
TextEnergy ==
    <<123, 34, 83, 116, 97, 116, 101, 73, 100, 34, 58, 53, 53, 51, 44, 34, 86, 97, 108,
      117, 101, 65, 115, 83, 116, 114, 105, 110, 103, 34, 58, 34, 48, 46, 53, 34, 125>>

\* {}
TextEmptyObject == <<123, 125>>

\* null
TextNull == <<110, 117, 108, 108>>

\* {"StateId"
TextCut == <<123, 34, 83, 116, 97, 116, 101, 73, 100, 34>>

\* A message body: one element "A" with the given text.
BodyWithText(text) == Encode(<<[name |-> <<65>>, xmlns |-> None, text |-> text]>>)

\* The bodies the subscription delivers: a mode and an energy update, JSON
\* without a StateId, text that is no JSON, an element without text, one
\* with the empty text, no element, and two bodies the decoder rejects.
PipeBodies ==
    {BodyWithText(Some(t)) :
        t \in {TextMode3, TextEnergy, TextEmptyObject, TextNull, TextCut}}
    \cup {BodyWithText(None), BodyWithText(Some(<<>>)), <<>>, <<SHORT_ELEMENT, 5, 65>>,
          <<2>>}

\* The ids of the messages on the subscription.
MessageIds == 1..MaxMessages

\* The ids of S in ascending order.
RECURSIVE InOrder(_)
InOrder(S) ==
    IF S = {} THEN <<>>
    ELSE LET least == CHOOSE x \in S : \A y \in S : x <= y
         IN  <<least>> \o InOrder(S \ {least})

\* The errors JSON.parse and a property read of null or undefined throw.
JsonSyntaxError == [message |-> "SyntaxError: not valid JSON", byte |-> None]
PropertyTypeError == [message |-> "TypeError: Cannot read properties", byte |-> None]

\* The catch block: the error and the message body are logged.
CatchLogs(err, content) ==
    <<LogEntry("error", "Error processing message: %s", Some(err), <<>>),
      LogEntry("info", "Message content: %o", None, content)>>

\* v.key for a value that is not null: undefined for what is no object.
PropertyOf(v, key) == IF v.t = "obj" THEN Member(v.m, key) ELSE None

\* Mutant of HasText: the empty string counts as text.
HasTextOrEmpty(decoded) ==
    /\ Len(decoded) > 0
    /\ decoded[1].text # None

\* decodedMessage.length > 0 && decodedMessage[0]?.text
HasText(decoded) ==
    /\ Len(decoded) > 0
    /\ decoded[1].text # None
    /\ decoded[1].text[1] # <<>>

\* processMessages starts on a subscription that holds every message, with a
\* ChargerState that found the cumulative-energy file of an earlier run.
PipeInit ==
    /\ RunningIs(CallOver)
    /\ other = CallOver
    /\ queue = MessageIds
    /\ body \in [MessageIds -> PipeBodies]
    /\ batch = <<>>
    /\ cur = None
    /\ ppc = "receive"
    /\ logs = <<>>
    /\ informed = <<>>
    /\ called = FALSE
    /\ deliveries = 0
    /\ Constructed
    /\ file # None
    /\ handled = <<>>
    /\ inFlight = {}
    /\ arrived = <<>>
    /\ NoApi

\* receiveMessages came back empty: the loop goes round.
ReceiveNone ==
    /\ ppc = "receive"
    /\ logs' = <<Log("debug", "No messages received in this batch.")>>
    /\ UNCHANGED <<call, other, queue, body, loaded, handled, mini, api, batch, cur, ppc, informed, called, deliveries,
                   state, cumulativeEnergyDelivered, file>>

\* receiveMessages(10, ...) hands out some of the messages the subscription
\* holds, oldest first.
Receive ==
    /\ ppc = "receive"
    /\ \E S \in SUBSET queue :
          /\ S # {}
          /\ Cardinality(S) <= MaxBatch
          /\ deliveries + Cardinality(S) <= MaxDeliveries
          /\ batch' = InOrder(S)
          /\ deliveries' = deliveries + Cardinality(S)
    /\ ppc' = "loop"
    /\ UNCHANGED <<call, other, queue, body, loaded, handled, mini, api, cur, logs, informed, called, state,
                   cumulativeEnergyDelivered, file>>

\* The for loop has no message left.
BatchDone ==
    /\ ppc = "loop"
    /\ batch = <<>>
    /\ cur' = None
    /\ ppc' = "receive"
    /\ UNCHANGED <<call, other, queue, body, loaded, handled, mini, api, batch, logs, informed, called, deliveries,
                   state, cumulativeEnergyDelivered, file>>

\* The for loop takes the next message and calls messageDecoder on its body.
BeginMessage ==
    /\ ppc = "loop"
    /\ batch # <<>>
    /\ cur' = Some(Head(batch))
    /\ batch' = Tail(batch)
    /\ Resume(CallOn(body[Head(batch)], None))
    /\ logs' = <<>>
    /\ informed' = <<>>
    /\ called' = FALSE
    /\ ppc' = "decode"
    /\ UNCHANGED <<other, queue, body, loaded, handled, mini, api, deliveries, state, cumulativeEnergyDelivered, file>>

\* Mutant of DecodeThrew: the message is completed all the same.
DecodeThrewCompletes ==
    /\ ppc = "decode"
    /\ pc = "done"
    /\ thrown # None
    /\ logs' = CatchLogs(thrown[1], body[cur[1]])
    /\ called' = TRUE
    /\ ppc' = "complete"
    /\ UNCHANGED <<call, other, queue, body, loaded, handled, mini, api, batch, cur, informed, deliveries, state,
                   cumulativeEnergyDelivered, file>>

\* messageDecoder threw: the catch block logs, completeMessage is skipped.
DecodeThrew ==
    /\ ppc = "decode"
    /\ pc = "done"
    /\ thrown # None
    /\ logs' = CatchLogs(thrown[1], body[cur[1]])
    /\ ppc' = "loop"
    /\ UNCHANGED <<call, other, queue, body, loaded, handled, mini, api, batch, cur, informed, called, deliveries,
                   state, cumulativeEnergyDelivered, file>>

\* The catch block after a throw between the decoding and completeMessage.
Caught(err) ==
    /\ logs' = CatchLogs(err, body[cur[1]])
    /\ ppc' = "loop"
    /\ UNCHANGED <<informed, called, state, cumulativeEnergyDelivered, file, handled,
                   inFlight>>

\* ChargerState is left as cs and completeMessage is called.
ThenComplete(cs) ==
    /\ state' = cs.state
    /\ cumulativeEnergyDelivered' = cs.total
    /\ file' = cs.file
    /\ informed' = cs.informed
    /\ logs' = cs.logs
    /\ handled' = cs.handled
    /\ inFlight' = cs.inFlight
    /\ called' = TRUE
    /\ ppc' = "complete"

\* messageDecoder returned: the text of the first element is parsed and
\* handed to handleChargerState, then completeMessage is called.
HandleDecoded ==
    /\ ppc = "decode"
    /\ pc = "done"
    /\ returned # None
    /\ LET decodedMessage == returned[1]
       IN  IF HasText(decodedMessage)
           THEN LET parsedData == JsonParse(decodedMessage[1].text[1])
                IN  IF parsedData = None THEN Caught(JsonSyntaxError)
                    ELSE IF parsedData[1].t = "null" THEN Caught(PropertyTypeError)
                    ELSE LET StateId == PropertyOf(parsedData[1], KeyStateId)
                         IN  IF StateId = None \/ StateId[1].t = "null"
                             THEN Caught(PropertyTypeError)
                             ELSE ThenComplete(
                                      HandleChargerState(
                                          ChargerNow, JsString(StateId),
                                          PropertyOf(parsedData[1], KeyValueAsString)))
           ELSE ThenComplete(
                    [ChargerNow EXCEPT !.logs = Append(@,
                        Log("warn", "Decoded message does not contain expected text."))])
    /\ UNCHANGED <<call, other, queue, body, loaded, arrived, api, batch, cur, deliveries>>

\* completeMessage resolved: the message leaves the subscription.
CompleteDone ==
    /\ ppc = "complete"
    /\ queue' = queue \ {cur[1]}
    /\ logs' = Append(logs, Log("info", "Completed message"))
    /\ ppc' = "loop"
    /\ UNCHANGED <<call, other, body, loaded, handled, mini, api, batch, cur, informed, called, deliveries, state,
                   cumulativeEnergyDelivered, file>>

\* Mutant of CompleteFailed: the rejection leaves the for loop and the rest
\* of the batch is dropped.
CompleteFailedLeavesBatch ==
    /\ ppc = "complete"
    /\ logs' = logs \o CatchLogs([message |-> "ServiceBusError", byte |-> None], body[cur[1]])
    /\ batch' = <<>>
    /\ ppc' = "loop"
    /\ UNCHANGED <<call, other, queue, body, loaded, handled, mini, api, cur, informed, called, deliveries, state,
                   cumulativeEnergyDelivered, file>>

\* completeMessage rejected: the catch block logs and the message stays.
CompleteFailed ==
    /\ ppc = "complete"
    /\ logs' = logs \o CatchLogs([message |-> "ServiceBusError", byte |-> None], body[cur[1]])
    /\ ppc' = "loop"
    /\ UNCHANGED <<call, other, queue, body, loaded, handled, mini, api, batch, cur, informed, called, deliveries,
                   state, cumulativeEnergyDelivered, file>>

PipeNext ==
    \/ ReceiveNone
    \/ Receive
    \/ BatchDone
    \/ BeginMessage
    \/ Next
    \/ DecodeThrew
    \/ HandleDecoded
    \/ CompleteDone
    \/ CompleteFailed

\* processMessages with the decoder it calls and the ChargerState it feeds.
PipeSpec == PipeInit /\ [][PipeNext]_vars

\* -------------------------------------------- ChargerState called directly
\* How many handleChargerState calls are followed.
MaxCalls == 3

\* A ValueAsString holding the given characters.
Str(chars) == Some(JStr(chars))

\* The (id, ValueAsString) pairs handleChargerState is called with: modes
\* 1, 2, 3, 5, 4, -1, 0, 3.9, abc and none; powers 1500, 5000, -100, abc;
\* energies 0.5, 2, abc; and an id nobody is interested in.
ModeCalls ==
    {<<IdMode, v>> : v \in {Str(<<49>>), Str(<<50>>), Str(<<51>>), Str(<<53>>),
                             Str(<<52>>), Str(<<45, 49>>), Str(<<48>>),
                             Str(<<51, 46, 57>>), Str(<<97, 98, 99>>), None}}

PowerCalls ==
    {<<IdPower, v>> : v \in {Str(<<49, 53, 48, 48>>), Str(<<53, 48, 48, 48>>),
                              Str(<<45, 49, 48, 48>>), Str(<<97, 98, 99>>)}}

EnergyCalls ==
    {<<IdEnergy, v>> : v \in {Str(<<48, 46, 53>>), Str(<<50>>), Str(<<97, 98, 99>>)}}

OtherCalls == {<<<<57, 57, 57>>, Str(<<49>>)>>}

SampleCalls == ModeCalls \cup PowerCalls \cup EnergyCalls \cup OtherCalls

\* A freshly constructed ChargerState, nothing else running.
ChargerInit ==
    /\ RunningIs(CallOver)
    /\ other = CallOver
    /\ queue = {}
    /\ body = <<>>
    /\ batch = <<>>
    /\ cur = None
    /\ ppc = "off"
    /\ logs = <<>>
    /\ informed = <<>>
    /\ called = FALSE
    /\ deliveries = 0
    /\ Constructed
    /\ handled = <<>>
    /\ inFlight = {}
    /\ arrived = <<>>
    /\ NoApi

\* One handleChargerState call with a pair of S; logs and informed tell
\* what this call logged and whom it informed.
HandleCallFrom(S) ==
    /\ Len(handled) < MaxCalls
    /\ \E c \in S :
          LET cs == HandleChargerState([ChargerNow EXCEPT !.informed = <<>>, !.logs = <<>>],
                                       c[1], c[2])
          IN  /\ state' = cs.state
              /\ cumulativeEnergyDelivered' = cs.total
              /\ file' = cs.file
              /\ informed' = cs.informed
              /\ logs' = cs.logs
              /\ handled' = cs.handled
              /\ inFlight' = cs.inFlight
    /\ UNCHANGED <<call, other, queue, body, batch, cur, ppc, called, deliveries, loaded,
                   arrived, api>>

HandleCall == HandleCallFrom(SampleCalls)

\* A ChargerState and its callers.
ChargerSpec == ChargerInit /\ [][HandleCall]_vars

\* ------------------------------------------------ the way to the Miniserver
\* The calls followed on their way to the Miniserver: modes 2 and 3 and the
\* energy 0.5.
MiniCalls ==
    {<<IdMode, Str(<<50>>)>>, <<IdMode, Str(<<51>>)>>, <<IdEnergy, Str(<<48, 46, 53>>)>>}

MiniHandleCall == HandleCallFrom(MiniCalls)

\* sendStateUpdate: the random delay of a command is over and its request
\* reaches the Miniserver.
Arrive ==
    /\ \E c \in inFlight :
          /\ inFlight' = inFlight \ {c}
          /\ arrived' = Append(arrived, c)
    /\ UNCHANGED <<call, other, pipe, api>>

\* sendStateUpdate: axios.get fails, which is logged and nothing more.
SendFailed ==
    /\ \E c \in inFlight : inFlight' = inFlight \ {c}
    /\ UNCHANGED <<call, other, pipe, arrived, api>>

MiniNext ==
    \/ MiniHandleCall
    \/ Arrive
    \/ SendFailed

\* A ChargerState, its callers and the commands it sends to the Miniserver.
MiniSpec == ChargerInit /\ [][MiniNext]_vars

\* ----------------------------------------------------------- TokenManager
\* How many seconds the clock is followed, and how many getAccessToken
\* calls.
MaxSeconds == 3
MaxTokenCalls == 3

\* access_token
KeyAccessToken ==
    <<97, 99, 99, 101, 115, 115, 95, 116, 111, 107, 101, 110>>

\* expires_in
KeyExpiresIn ==
    <<101, 120, 112, 105, 114, 101, 115, 95, 105, 110>>

\* {"access_token":"a","expires_in":1}
ResponseA ==
    <<123, 34, 97, 99, 99, 101, 115, 115, 95, 116, 111, 107, 101, 110, 34, 58, 34, 97,
      34, 44, 34, 101, 120, 112, 105, 114, 101, 115, 95, 105, 110, 34, 58, 49, 125>>

\* {"access_token":"b","expires_in":2}
ResponseB ==
    <<123, 34, 97, 99, 99, 101, 115, 115, 95, 116, 111, 107, 101, 110, 34, 58, 34, 98,
      34, 44, 34, 101, 120, 112, 105, 114, 101, 115, 95, 105, 110, 34, 58, 50, 125>>

\* What apiRequest('/oauth/token', ...) ends with: a body that is one of
\* the two token responses, {}, null or cut short, or a rejection.
TokenReplies ==
    {[ok |-> TRUE, data |-> d] :
        d \in {ResponseA, ResponseB, TextEmptyObject, TextNull, TextCut}}
    \cup {[ok |-> FALSE, data |-> <<>>]}

\* Mutant of IsTokenExpired: the token still counts at tokenExpiresAt.
IsTokenExpiredAfter == tokenExpiresAt # None /\ now > tokenExpiresAt[1]

\* isTokenExpired(): Date.now() >= tokenExpiresAt, false for NaN.
IsTokenExpired == tokenExpiresAt # None /\ now >= tokenExpiresAt[1]

\* Date.now() + expires_in * 1000 for a number or a missing expires_in.
ExpiresAt(expires_in) ==
    IF expires_in # None /\ expires_in[1].t = "num"
    THEN Some(now + (expires_in[1].n * 1000) \div Unit)
    ELSE None

\* A second passes.
Tick ==
    /\ now < MaxSeconds * 1000
    /\ now' = now + 1000
    /\ UNCHANGED <<call, other, pipe, mini, accessToken, tokenExpiresAt, tpc, tret, reply,
                   requests, tcalls, retry, charger>>

\* A call is made: no failure is the last thing that happened.
Asked(r, c, waits) ==
    [r EXCEPT !.due = FALSE, !.won = FALSE,
              !.since[c] = IF waits THEN FALSE ELSE @]

\* The request of c succeeded.
Succeeded(r) ==
    [r EXCEPT !.won = (r.due \/ @), !.since = [c \in Callers |-> TRUE]]

\* The request of c failed.
Failed(r, c) == [r EXCEPT !.due = TRUE, !.won = r.since[c]]

\* getAccessToken() is called by c: the cached token is returned, or
\* refreshToken sends its request and waits.
CallToken(c) ==
    /\ tpc[c] # "refreshing"
    /\ tcalls < MaxTokenCalls
    /\ tcalls' = tcalls + 1
    /\ retry' = Asked(retry, c, IsTokenExpired)
    /\ IF IsTokenExpired
       THEN /\ requests' = requests + 1
            /\ tpc' = [tpc EXCEPT ![c] = "refreshing"]
            /\ tret' = [tret EXCEPT ![c] = None]
       ELSE /\ requests' = requests
            /\ tpc' = [tpc EXCEPT ![c] = "done"]
            /\ tret' = [tret EXCEPT ![c] = accessToken]
    /\ UNCHANGED <<call, other, pipe, mini, accessToken, tokenExpiresAt, now, reply>>

\* Mutant of TokenReply: a failed refresh still puts the expiry off by a
\* second.
TokenReplyFailureStamps(c, r) ==
    /\ tpc[c] = "refreshing"
    /\ reply' = [reply EXCEPT ![c] = Some(r)]
    /\ LET jsonResponse == IF r.ok THEN JsonParse(r.data) ELSE None
       IN  IF jsonResponse = None \/ jsonResponse[1].t = "null"
           THEN /\ tpc' = [tpc EXCEPT ![c] = "failed"]
                /\ retry' = Failed(retry, c)
                /\ tokenExpiresAt' = Some(now + 1000)
                /\ UNCHANGED <<accessToken, tret>>
           ELSE /\ accessToken' = PropertyOf(jsonResponse[1], KeyAccessToken)
                /\ tokenExpiresAt' = ExpiresAt(PropertyOf(jsonResponse[1], KeyExpiresIn))
                /\ tret' = [tret EXCEPT ![c] = accessToken']
                /\ tpc' = [tpc EXCEPT ![c] = "done"]
                /\ retry' = Succeeded(retry)
    /\ UNCHANGED <<call, other, pipe, mini, now, requests, tcalls>>

\* The token request of c ends with r: refreshToken parses it and stores
\* the token and its expiry, and getAccessToken returns the stored token; a
\* rejection, a body that does not parse or null makes both reject.
TokenReply(c, r) ==
    /\ tpc[c] = "refreshing"
    /\ reply' = [reply EXCEPT ![c] = Some(r)]
    /\ LET jsonResponse == IF r.ok THEN JsonParse(r.data) ELSE None
       IN  IF jsonResponse = None \/ jsonResponse[1].t = "null"
           THEN /\ tpc' = [tpc EXCEPT ![c] = "failed"]
                /\ retry' = Failed(retry, c)
                /\ UNCHANGED <<accessToken, tokenExpiresAt, tret>>
           ELSE /\ accessToken' = PropertyOf(jsonResponse[1], KeyAccessToken)
                /\ tokenExpiresAt' = ExpiresAt(PropertyOf(jsonResponse[1], KeyExpiresIn))
                /\ tret' = [tret EXCEPT ![c] = accessToken']
                /\ tpc' = [tpc EXCEPT ![c] = "done"]
                /\ retry' = Succeeded(retry)
    /\ UNCHANGED <<call, other, pipe, mini, now, requests, tcalls>>

\* getAccessToken() called by c on its own account.
GetAccessToken(c) ==
    /\ charger.pc[c] \notin {"token", "fetching"}
    /\ CallToken(c)
    /\ UNCHANGED charger

\* The token request of a caller that asked on its own account ends.
RefreshEnds(c, r) ==
    /\ charger.pc[c] # "token"
    /\ TokenReply(c, r)
    /\ UNCHANGED charger

TokenInit ==
    /\ RunningIs(CallOver)
    /\ other = CallOver
    /\ NoPipeline

TokenNext ==
    \/ Tick
    \/ \E c \in Callers : GetAccessToken(c)
    \/ \E c \in Callers, r \in TokenReplies : RefreshEnds(c, r)

\* The TokenManager, its callers and the clock.
TokenSpec == TokenInit /\ [][TokenNext]_vars

\* ---------------------------------------------------------------- Charger
\* Data
KeyData ==
    <<68, 97, 116, 97>>

\* Id
KeyId ==
    <<73, 100>>

\* {"Data":[{"Id":"X"}]}
ChargersX ==
    <<123, 34, 68, 97, 116, 97, 34, 58, 91, 123, 34, 73, 100, 34, 58, 34, 88, 34, 125,
      93, 125>>

\* {"Data":[{"Id":"Y"}]}
ChargersY ==
    <<123, 34, 68, 97, 116, 97, 34, 58, 91, 123, 34, 73, 100, 34, 58, 34, 89, 34, 125,
      93, 125>>

\* {"Data":[]}
ChargersNone ==
    <<123, 34, 68, 97, 116, 97, 34, 58, 91, 93, 125>>

\* {"Data":[{}]}
ChargersNoId ==
    <<123, 34, 68, 97, 116, 97, 34, 58, 91, 123, 125, 93, 125>>

\* What apiRequest('/api/chargers', ...) ends with: a body that names
\* charger X or charger Y first, one with no charger, one whose first charger
\* has no Id, {} or a body cut short, or a rejection.
IdReplies ==
    {[ok |-> TRUE, data |-> d] :
        d \in {ChargersX, ChargersY, ChargersNone, ChargersNoId, TextEmptyObject, TextCut}}
    \cup {[ok |-> FALSE, data |-> <<>>]}

\* What the token request made for fetchChargerId ends with: a token
\* response or a rejection.
IdTokenReplies == {[ok |-> TRUE, data |-> ResponseA], [ok |-> FALSE, data |-> <<>>]}

\* How many getChargerId calls are followed.
MaxIdCalls == 3

\* Whether a value counts as true: not undefined, null, false, 0 or "".
Truthy(x) ==
    /\ x # None
    /\ x[1].t # "null"
    /\ x[1].t = "bool" => x[1].n = 1
    /\ x[1].t = "num" => x[1].n # 0
    /\ x[1].t = "str" => x[1].s # <<>>

\* The TokenManager's variables.
token == <<accessToken, tokenExpiresAt, now, tpc, tret, reply, requests, tcalls, retry>>

\* fetchChargerId sends its request once it has the token.
Fetching(ch, c) == [ch EXCEPT !.pc[c] = "fetching", !.requests = @ + 1]

\* Mutant of GetChargerId: the cached ID is never used.
GetChargerIdAlwaysFetches(c) ==
    /\ charger.pc[c] \notin {"token", "fetching"}
    /\ tpc[c] # "refreshing"
    /\ charger.calls < MaxIdCalls
    /\ LET asked == [charger EXCEPT !.calls = @ + 1, !.by = Some(c),
                                        !.ret[c] = None, !.err[c] = ""]
       IN  IF FALSE
           THEN /\ charger' = [asked EXCEPT !.pc[c] = "done",
                                             !.ret[c] = charger.chargerId,
                                             !.retry = Asked(@, c, FALSE)]
                /\ UNCHANGED <<call, other, pipe, mini, token>>
           ELSE /\ CallToken(c)
                /\ charger' = [(IF IsTokenExpired
                                 THEN [asked EXCEPT !.pc[c] = "token"]
                                 ELSE Fetching(asked, c))
                                EXCEPT !.retry = Asked(@, c, TRUE)]

\* getChargerId() is called by c: the cached ID is returned, or
\* fetchChargerId asks for the access token and then for the chargers.
GetChargerId(c) ==
    /\ charger.pc[c] \notin {"token", "fetching"}
    /\ tpc[c] # "refreshing"
    /\ charger.calls < MaxIdCalls
    /\ LET asked == [charger EXCEPT !.calls = @ + 1, !.by = Some(c),
                                        !.ret[c] = None, !.err[c] = ""]
       IN  IF Truthy(charger.chargerId)
           THEN /\ charger' = [asked EXCEPT !.pc[c] = "done",
                                             !.ret[c] = charger.chargerId,
                                             !.retry = Asked(@, c, FALSE)]
                /\ UNCHANGED <<call, other, pipe, mini, token>>
           ELSE /\ CallToken(c)
                /\ charger' = [(IF IsTokenExpired
                                 THEN [asked EXCEPT !.pc[c] = "token"]
                                 ELSE Fetching(asked, c))
                                EXCEPT !.retry = Asked(@, c, TRUE)]

\* The token request made for fetchChargerId ends: with the token the
\* chargers are asked for, without it getChargerId rejects as getAccessToken
\* did.
FetchGetsToken(c, r) ==
    /\ charger.pc[c] = "token"
    /\ TokenReply(c, r)
    /\ charger' = IF tpc'[c] = "failed"
                  THEN [charger EXCEPT !.pc[c] = "failed",
                                       !.err[c] = "getAccessToken failed",
                                       !.retry = Failed(@, c)]
                  ELSE Fetching(charger, c)

\* The first charger's Id in a response, or None when the response is not
\* what fetchChargerId accepts.
FirstChargerId(r) ==
    LET jsonResponse == IF r.ok THEN JsonParse(r.data) ELSE None
    IN  IF jsonResponse = None \/ jsonResponse[1].t = "null" THEN None
        ELSE LET Data == PropertyOf(jsonResponse[1], KeyData)
             IN  IF Data = None \/ Data[1].t # "arr" \/ Data[1].m = <<>> THEN None
                 ELSE IF Data[1].m[1].v.t = "null" THEN None
                 ELSE LET Id == PropertyOf(Data[1].m[1].v, KeyId)
                      IN  IF Truthy(Id) THEN Id ELSE None

\* Mutant of FetchEnds: a response without a charger caches the string
\* "none".
FetchEndsCachesNone(c, r) ==
    /\ charger.pc[c] = "fetching"
    /\ LET Id == FirstChargerId(r)
       IN  IF Id = None
           THEN charger' = [charger EXCEPT !.pc[c] = "failed",
                                           !.chargerId = Some(JStr(<<110, 111, 110, 101>>)),
                                           !.err[c] = "Failed to fetch charger ID",
                                           !.retry = Failed(@, c)]
           ELSE charger' = [charger EXCEPT !.pc[c] = "done",
                                           !.chargerId = Id,
                                           !.ret[c] = Id,
                                           !.first = IF @ = None THEN Id ELSE @,
                                           !.retry = Succeeded(@)]
    /\ UNCHANGED <<call, other, pipe, mini, token>>

\* The chargers request of c ends with r: the first charger's Id is cached
\* and returned, or getChargerId rejects with 'Failed to fetch charger ID'.
FetchEnds(c, r) ==
    /\ charger.pc[c] = "fetching"
    /\ LET Id == FirstChargerId(r)
       IN  IF Id = None
           THEN charger' = [charger EXCEPT !.pc[c] = "failed",
                                           !.err[c] = "Failed to fetch charger ID",
                                           !.retry = Failed(@, c)]
           ELSE charger' = [charger EXCEPT !.pc[c] = "done",
                                           !.chargerId = Id,
                                           !.ret[c] = Id,
                                           !.first = IF @ = None THEN Id ELSE @,
                                           !.retry = Succeeded(@)]
    /\ UNCHANGED <<call, other, pipe, mini, token>>

IdNext ==
    \/ Tick
    \/ \E c \in Callers : GetChargerId(c)
    \/ \E c \in Callers, r \in IdTokenReplies : FetchGetsToken(c, r)
    \/ \E c \in Callers, r \in IdReplies : FetchEnds(c, r)

\* The Charger, the TokenManager it asks, their callers and the clock.
IdSpec == TokenInit /\ [][IdNext]_vars

\* ------------------------------------------------------------- outcomes
ThrewUnexpectedEndOfData ==
    thrown # None /\ thrown[1] \in {EndOfLengthError, EndOfStringError}

ThrewUnknownRecordType(b) == thrown = Some(UnknownRecordTypeError(b))

ThrewSomeUnknownRecordType ==
    thrown # None /\ thrown[1].message = "Unknown record type"

\* The string readString yields for a record whose payload is the UTF-8
\* encoding of str.
Payload(str) == Utf8Decode(Utf8Encode(str))

PayloadOpt(opt) == IF opt = None THEN None ELSE Some(Payload(opt[1]))

\* The element the record sequence of EncodeElement(e) describes.
Described(e) ==
    [name |-> Payload(e.name), xmlns |-> PayloadOpt(e.xmlns), text |-> PayloadOpt(e.text)]

\* ----------------------------------------------------------------- claims

\* C1: round trip.  Decoding the buffer the inverse encoder produces for a
\* sequence of elements returns exactly that sequence: same length, same
\* order, every name, xmlns and text (and their absence) unchanged.
C1_RoundTrip ==
    (pc = "done" /\ elements # None) => returned = elements

\* C2: when the buffer ends while an element is open, the call fails with
\* the unexpected-end-of-data error and returns nothing.  (A call that ended
\* inside an element on an unknown-record error met an offending record
\* first, and is not the claim's case.)
C2_UnclosedElementFails ==
    (pc = "done" /\ inElement /\ ~ThrewSomeUnknownRecordType)
        => (ThrewUnexpectedEndOfData /\ returned = None)

\* A read of readString (a length prefix, a string payload) either yields
\* exactly the bytes asked for and moves the offset by as many, or makes the
\* call fail with the unexpected-end-of-data error.
ExactReadOrFail ==
    pc \in {"readLength", "readPayload"}
        => \/ ThrewUnexpectedEndOfData'
           \/ /\ block' # None
              /\ Len(block'[1]) = count'
              /\ Len(data') = Len(data) - count'

\* C3: every read of n bytes either returns exactly n bytes and advances the
\* offset by n, or makes the call fail with the unexpected-end-of-data error;
\* a string payload is never decoded from a slice shorter than its declared
\* length.
C3_ExactReadOrFail == [][ExactReadOrFail]_vars

KnownTags == PayloadTags \cup {END_ELEMENT}

\* C4: a byte read at a tag position that is none of 0x01, 0x08, 0x40, 0x98,
\* 0x9A makes the call fail with the unknown-record-type error for that byte,
\* and nothing is returned, whatever was decoded before it.
C4_UnknownTagFails ==
    (recordType # None /\ recordType[1] \notin KnownTags)
        => /\ pc = "done"
           /\ ThrewUnknownRecordType(recordType[1])
           /\ returned = None

\* A complete element, then the byte 0xFF at the next tag position.
C4_Witness ==
    /\ recordType = Some(255)
    /\ ThrewUnknownRecordType(255)
    /\ Len(root) >= 1
    /\ ~inElement
    /\ returned = None

\* The call has ended exactly when it has an outcome, the outcome is either
\* the returned array or one error, never both, and an error leaves nothing
\* returned.
OneOutcome ==
    /\ (pc = "done") <=> (returned # None \/ thrown # None)
    /\ ~(returned # None /\ thrown # None)
    /\ returned # None => returned = Some(root)

\* After an error nothing of the call changes any more.
NoResume == thrown # None => UNCHANGED vars

\* C5: every call ends in exactly one outcome, the complete sequence or one
\* failure; a failure ends the call where it is raised, returns nothing of
\* what was decoded before, and the decoder never resumes after it.
C5_OneOutcome == []OneOutcome /\ [][NoResume]_vars

\* A failure after an element had been decoded: nothing is returned.
C5_Witness ==
    /\ pc = "done"
    /\ thrown # None
    /\ Len(root) >= 1
    /\ returned = None

\* C6: the empty buffer decodes to the empty sequence, and the end of the
\* stream met while no element is open ends the call successfully with the
\* elements accumulated so far.
C6_EndAtTopLevel ==
    /\ (pc = "done" /\ msg = <<>>) => (returned = Some(<<>>) /\ thrown = None)
    /\ (pc = "done" /\ frameDone /\ ~inElement) => (returned = Some(root) /\ thrown = None)

\* The empty raw buffer has been decoded.
C6_Witness ==
    /\ pc = "done"
    /\ msg = <<>>
    /\ elements = None
    /\ frameDone
    /\ returned = Some(<<>>)

C8_EncounterOrder ==
    (pc = "done" /\ elements # None)
        => /\ returned # None
           /\ Len(returned[1]) = Len(elements[1])
           /\ \A i \in 1..Len(elements[1]) : returned[1][i] = Described(elements[1][i])

\* Two siblings of the same name that differ in their other fields.
C8_Witness ==
    /\ pc = "done"
    /\ elements = Some(<<[name |-> <<65>>, xmlns |-> None, text |-> Some(<<>>)],
                         [name |-> <<65>>, xmlns |-> Some(<<110>>), text |-> None]>>)
    /\ returned = elements

\* C9: the payload length of a Chars16Text record is b0 + 256 * b1 of the two
\* bytes after the tag, that of the other payload records the one byte after
\* the tag; the long text in Chars16Text and the long text in Chars8Text each
\* decode to the identical string.
C9_Lengths ==
    /\ pc = "readPayload"
         => length = IF recordType = Some(CHARS16TEXT)
                     THEN msg[Offset - 1] + 256 * msg[Offset]
                     ELSE msg[Offset]
    /\ (pc = "done" /\ elements # None /\ Len(elements[1]) = 1
            /\ elements[1][1] \in LongElements)
         => returned = elements

\* The text of LongText16Len bytes came back whole from a Chars16Text record.
C9_Witness ==
    /\ pc = "done"
    /\ elements # None
    /\ Len(msg) > LongText16Len
    /\ msg[4] = CHARS16TEXT
    /\ returned # None
    /\ Len(returned[1]) = 1
    /\ returned[1][1].text = Some(LongText(LongText16Len))

\* The end of the stream is reported only by a tag read that finds no byte
\* left; a length read that finds fewer bytes than the length prefix needs
\* ends the call with the unexpected-end-of-data error.
EndOfStreamRule ==
    /\ (frameDone' /\ ~frameDone) => (pc = "frame" /\ Len(data) = 0)
    /\ (pc = "readLength" /\ Len(data) < (IF recordType = Some(CHARS16TEXT) THEN 2 ELSE 1))
         => /\ ThrewUnexpectedEndOfData'
            /\ pc' = "done"
            /\ ~frameDone'
            /\ returned' = None

\* C10: running out of bytes is the end of the stream only when no byte is
\* left as a fresh tag byte is to be read; running out after a payload tag
\* (no length byte, or one of the two Chars16Text length bytes) is a failure
\* of the call.
C10_EndOfStreamOnlyAtBoundary == [][EndOfStreamRule]_vars

\* A Chars16Text tag followed by one length byte only.
C10_Witness ==
    /\ recordType = Some(CHARS16TEXT)
    /\ block # None
    /\ Len(block[1]) = 1
    /\ count = 2
    /\ thrown = Some(EndOfLengthError)

\* What an error says it is: the code has one Error class and tells the
\* failures apart by their message only.
ErrorKind(e) ==
    IF e.message = "Unknown record type" THEN "UnknownRecordType"
    ELSE "UnexpectedEndOfData"

\* The record at hand while no element is open is not a ShortElement.
StrayTopLevelRecord ==
    pc = "record" /\ ~inElement /\ record[1].type # SHORT_ELEMENT

\* Such a record ends the call with an error of the given kind.
TopLevelFailsAs(kind) ==
    StrayTopLevelRecord
        => /\ pc' = "done"
           /\ thrown' # None
           /\ ErrorKind(thrown'[1]) = kind
           /\ thrown'[1].byte = Some(record[1].type)
           /\ returned' = None

NestedShortElement ==
    pc = "record" /\ inElement /\ record[1].type = SHORT_ELEMENT

\* Such a record ends the call with an error of the given kind, opening no
\* second element and leaving the first one open.
NestedFailsAs(kind) ==
    NestedShortElement
        => /\ pc' = "done"
           /\ thrown' # None
           /\ ErrorKind(thrown'[1]) = kind
           /\ thrown'[1].byte = Some(SHORT_ELEMENT)
           /\ returned' = None
           /\ root' = root
           /\ inElement' = inElement

EarlierElementsKept ==
    /\ Len(root') = Len(root)
    /\ \A i \in 1..(Len(root) - 1) : root'[i] = root[i]

\* A record handled while an element is open: an attribute record sets the
\* open element's xmlns to its payload and nothing else, a text record (of
\* either width) sets its text to its payload and nothing else.
LastWriteWins ==
    (pc = "record" /\ inElement)
        => LET r == record[1]
               before == root[Len(root)]
               after == root'[Len(root')]
           IN  /\ r.type = SHORT_XMLNS_ATTRIBUTE
                    => /\ EarlierElementsKept
                       /\ after = [before EXCEPT !.xmlns = r.text]
                       /\ inElement' /\ thrown' = None
               /\ r.type \in {CHARS8TEXT, CHARS16TEXT}
                    => /\ EarlierElementsKept
                       /\ after = [before EXCEPT !.text = r.text]
                       /\ inElement' /\ thrown' = None

\* C13: last write wins per field inside an open element: after several
\* attribute records xmlns is the value of the last one, after several text
\* records (Chars8Text and Chars16Text in any mix) text is the value of the
\* last one; an attribute record never changes text, a text record never
\* changes xmlns or name.
C13_LastWriteWins == [][LastWriteWins]_vars

\* ShortElement("A") Chars8Text("t") Chars16Text("u") EndElement gives text "u".
C13_Witness ==
    /\ pc = "done"
    /\ msg = Flatten(<<<<SHORT_ELEMENT, 1, 65>>, <<CHARS8TEXT, 1, 116>>,
                       <<CHARS16TEXT, 1, 0, 117>>, <<END_ELEMENT>>>>)
    /\ returned = Some(<<[name |-> <<65>>, xmlns |-> None, text |-> Some(<<117>>)]>>)

\* The bytes are well-formed UTF-8: decoding replaces nothing, so encoding
\* the decoded code points gives the bytes back.
ValidUtf8(bytes) == Utf8Encode(Utf8DecodeFrom(bytes, 1)) = bytes

\* A payload read that yields bytes that are not valid UTF-8 ends the call
\* with an error and yields no record.
InvalidUtf8Fails ==
    (pc = "readPayload" /\ ProdNextValue(length) # None
        /\ ~ValidUtf8(ProdNextValue(length)[1]))
        => /\ pc' = "done"
           /\ thrown' # None
           /\ record' = record

\* C16: a string payload whose bytes are not valid UTF-8 makes the call fail
\* with InvalidUtf8; such a payload never becomes a name, xmlns or text of a
\* returned element.
C16_InvalidUtf8Fails == [][InvalidUtf8Fails]_vars

\* C17: the call terminates on every buffer, well-formed or malformed: from
\* every state a success or a failure is eventually reached, and no loop
\* runs without end.
C17_Terminates == [](<>(pc = "done"))

\* A malformed buffer on which the call has ended with bytes still unread.
C17_Witness ==
    /\ pc = "done"
    /\ thrown # None
    /\ Len(data) > 0
    /\ Len(root) >= 1

\* A step that makes a read which yields bytes and does not end in an error.
GoodRead ==
    /\ takes' = takes + 1
    /\ block' # None
    /\ thrown' = None

\* Every read that does not fail moves the cursor forward by at least a byte.
EveryReadAdvances == GoodRead => Len(data') < Len(data)

\* C19 as stated: the call takes at most as many reads as the buffer has
\* bytes, and every read that does not fail advances the cursor by at least
\* one byte.
C19_ReadsWithinLength ==
    /\ [](takes <= Len(msg))
    /\ [][EveryReadAdvances]_vars

\* A tag read or length read that does not fail advances by at least a byte;
\* a payload read advances by the declared length, or by the bytes left when
\* they are fewer, which is nothing for a declared length of 0.
ReadAdvancesByKind ==
    GoodRead =>
        IF pc = "readPayload"
        THEN Len(data') = Len(data) - Min(length, Len(data))
        ELSE Len(data') < Len(data)

\* C19 amended: the call takes at most twice as many reads as the buffer has
\* bytes, plus one; tag and length reads that do not fail advance the cursor
\* by at least one byte, and a payload read advances it by the declared
\* length (or by the bytes left), so not at all for a declared length of 0.
C19_ReadsBounded ==
    /\ [](takes <= 2 * Len(msg) + 1)
    /\ [][ReadAdvancesByKind]_vars

\* A payload of declared length 0 has been read, the cursor has not moved,
\* and the call has made more reads than the buffer has bytes.
C19_Witness ==
    /\ pc = "record"
    /\ length = 0
    /\ block = Some(<<>>)
    /\ takes > Len(msg)

\* root grows only on the step that consumes the EndElement of the open
\* element.
AppendedOnEnd ==
    Len(root') > Len(root)
        => /\ pc = "record"
           /\ inElement
           /\ record[1].type = END_ELEMENT

\* C20: an element is appended to the output sequence when its EndElement is
\* consumed, not before: the sequence grows only on that step, and a returned
\* result holds no element that is still open.
C20_AppendedOnEnd ==
    /\ [][AppendedOnEnd]_vars
    /\ [](returned # None => ~inElement)

\* A step changes the local state of the running call only, or hands over
\* to the second call with both local states kept as they are.
OwnStateOnly ==
    \/ other' = other
    \/ /\ other' = Running
       /\ Running' = other

\* Two calls that have ended on equal buffers have ended the same way.
EqualBuffersEqualResults ==
    (pc = "done" /\ other.pc = "done" /\ msg = other.msg)
        => /\ returned = other.returned
           /\ thrown = other.thrown

FailureLoggedNotCompleted ==
    (ppc = "decode" /\ pc = "done" /\ thrown # None)
        => /\ logs' = <<LogEntry("error", "Error processing message: %s", thrown, <<>>),
                        LogEntry("info", "Message content: %o", None, body[cur[1]])>>
           /\ called' = FALSE
           /\ ppc' = "loop"
           /\ queue' = queue

\* While the message whose decoding failed is the current one,
\* completeMessage has not been called for it and it is on the subscription.
FailedStaysQueued ==
    (cur # None /\ thrown # None)
        => /\ ~called
           /\ ppc # "complete"
           /\ cur[1] \in queue

\* C14: a message whose body makes the decoder fail is not acknowledged
\* (completeMessage is never called for that delivery), the failure and the
\* raw body are logged, and the message stays available for redelivery.
C14_DecodeFailureNotAcknowledged ==
    /\ [][FailureLoggedNotCompleted]_vars
    /\ []FailedStaysQueued

\* The decoder failed on a message that had been handed out before; the
\* failure and the body are logged and the message is still queued.
C14_Witness ==
    /\ cur # None
    /\ thrown # None
    /\ ppc = "loop"
    /\ Len(logs) = 2
    /\ logs[2].content = body[cur[1]]
    /\ Len(body[cur[1]]) > 0
    /\ cur[1] \in queue
    /\ deliveries = MaxDeliveries

\* The step that follows a decoding whose first element holds text that
\* JSON.parse accepts calls completeMessage.
ParsedIsCompleted ==
    (/\ ppc = "decode"
     /\ pc = "done"
     /\ returned # None
     /\ HasText(returned[1])
     /\ JsonParse(returned[1][1].text[1]) # None)
        => called'

\* C15: a received message whose body decodes and whose first element's
\* text parses as JSON is acknowledged (completeMessage is called for it).
C15_ParsedIsAcknowledged == [][ParsedIsCompleted]_vars

\* The bytes left are the end of the buffer from the cursor on, and the
\* cursor is inside the buffer.
CursorInBuffer ==
    /\ Offset \in 0..Len(msg)
    /\ data = SubSeq(msg, Offset + 1, Len(msg))

\* A step never moves the cursor back, and a read hands out the bytes
\* between the cursor before and the cursor after, no byte before it.
CursorForward ==
    /\ Len(data') <= Len(data)
    /\ (takes' = takes + 1 /\ block' # None)
           => block'[1] = SubSeq(msg, Offset + 1, Len(msg) - Len(data'))

\* C21: the cursor offset never decreases during a decode call and is always
\* between 0 and the buffer length; bytes already consumed are never read
\* again.
C21_CursorMonotone ==
    /\ []CursorInBuffer
    /\ [][CursorForward]_vars

\* A call that has returned after reading a buffer of several records to
\* its end.
C21_Witness ==
    /\ pc = "done"
    /\ returned # None
    /\ Len(msg) >= 4
    /\ Offset = Len(msg)
    /\ takes >= 4

\* The element at place i of the output has had its EndElement consumed.
Closed(i) == i < Len(root) \/ ~inElement

\* Every closed element is at its place, unchanged, after the step.
ClosedElementsKept ==
    \A i \in 1..Len(root) :
        Closed(i) => /\ Len(root') >= i
                     /\ root'[i] = root[i]

\* C22: once an element's EndElement has been consumed, no later record of
\* the buffer changes its name, xmlns or text: attribute and text records
\* modify only the element that is open when they are read.
C22_ClosedElementsImmutable == [][ClosedElementsKept]_vars

\* A second element has been given a text after the first one was closed
\* without any.
C22_Witness ==
    /\ Len(root) = 2
    /\ root[1].text = None
    /\ root[2].text # None
    /\ root[2].xmlns # None

\* A record has a string exactly when its tag is not EndElement, and its
\* tag is one of the five record types.
PayloadIffNotEnd ==
    record # None
        => /\ record[1].type \in KnownTags
           /\ (record[1].text # None) <=> (record[1].type # END_ELEMENT)

\* C23: every record the record reader produces has a payload exactly when
\* its tag is not EndElement: EndElement carries none, the four other
\* records always carry a string, possibly the empty one.
C23_PayloadIffNotEnd == []PayloadIffNotEnd

\* An EndElement record without payload that closes an element whose name
\* record carried the empty string.
C23_Witness ==
    /\ pc = "record"
    /\ record = Some([type |-> END_ELEMENT, text |-> None])
    /\ inElement
    /\ root[Len(root)].name = <<>>
    /\ root[Len(root)].text = Some(<<>>)

\* The energy a ValueAsString of the calls above stands for: 0.5, 2, and 0
\* for what is no number.
EnergyOf(v) ==
    IF v = Str(<<48, 46, 53>>) THEN Unit \div 2
    ELSE IF v = Str(<<50>>) THEN 2 * Unit
    ELSE 0

\* The energy values handled so far, added up.
RECURSIVE SumEnergy(_)
SumEnergy(h) ==
    IF h = <<>> THEN 0
    ELSE SumEnergy(SubSeq(h, 1, Len(h) - 1))
         + (IF h[Len(h)].id = IdEnergy THEN EnergyOf(h[Len(h)].value) ELSE 0)

EnergyHandled == \E i \in 1..Len(handled) : handled[i].id = IdEnergy

\* C24: the cumulative total is the value loaded at construction plus the
\* sum of every energy value (state id 553) handled since, and once an energy
\* value has been handled the MeterReading state value and the value saved
\* in the cumulative-energy file both equal the total in memory.
C24_EnergyAccumulates ==
    /\ cumulativeEnergyDelivered = loaded + SumEnergy(handled)
    /\ EnergyHandled =>
          /\ state.MeterReading = cumulativeEnergyDelivered
          /\ file = Some(cumulativeEnergyDelivered)

\* Two energy values, 0.5 and 2, were added to a loaded total of 2.
C24_Witness ==
    /\ loaded = 2 * Unit
    /\ Len(handled) = 3
    /\ handled[1].id = IdEnergy /\ handled[1].value = Str(<<48, 46, 53>>)
    /\ handled[2].id = IdMode
    /\ handled[3].id = IdEnergy /\ handled[3].value = Str(<<50>>)
    /\ cumulativeEnergyDelivered = 4 * Unit + Unit \div 2
    /\ file = Some(cumulativeEnergyDelivered)
    /\ state.MeterReading = cumulativeEnergyDelivered

\* The messages whose energy value handleChargerState has been given.
EnergyMessages ==
    {m \in MessageIds :
        \E i \in 1..Len(handled) : handled[i].from = Some(m) /\ handled[i].id = IdEnergy}

\* The energy value message m carries.
MessageEnergy(m) ==
    LET i == CHOOSE i \in 1..Len(handled) :
                 handled[i].from = Some(m) /\ handled[i].id = IdEnergy
    IN  EnergyOf(handled[i].value)

\* The energy values of the messages of S, each counted once.
RECURSIVE EnergyOnce(_)
EnergyOnce(S) ==
    IF S = {} THEN 0
    ELSE LET m == CHOOSE m \in S : TRUE
         IN  MessageEnergy(m) + EnergyOnce(S \ {m})

\* C25: each queue message's energy value (state id 553) is in the
\* cumulative total at most once, however often the message is delivered:
\* the total is the value loaded at start plus the energy values of the
\* messages handled, each counted once.
C25_EnergyOncePerMessage ==
    cumulativeEnergyDelivered = loaded + EnergyOnce(EnergyMessages)

\* C26: the SET commands of two updateState calls on one state key reach
\* the Miniserver in the order of the calls.
C26_ArrivalInCallOrder ==
    \A i, j \in 1..Len(arrived) :
        (i < j /\ arrived[i].key = arrived[j].key) => arrived[i].at[1] < arrived[j].at[1]

\* The operation mode a ValueAsString of the calls above stands for: the
\* integer it starts with, and 1 when there is none or it is 0.
ModeOf(v) ==
    IF v = Str(<<50>>) THEN 2
    ELSE IF v \in {Str(<<51>>), Str(<<51, 46, 57>>)} THEN 3
    ELSE IF v = Str(<<53>>) THEN 5
    ELSE IF v = Str(<<52>>) THEN 4
    ELSE IF v = Str(<<45, 49>>) THEN 0 - 1
    ELSE 1

\* (VehicleConnected, ChargingActive) for the modes that have them.
ModeValues(mode) ==
    IF mode = 1 THEN <<0, 0>>
    ELSE IF mode = 3 THEN <<1 * Unit, 1 * Unit>>
    ELSE <<1 * Unit, 0>>

\* The step is a handleChargerState call for the given id.
Handles(id) ==
    /\ Len(handled') = Len(handled) + 1
    /\ handled'[Len(handled')].id = id

\* A call for state id 710 does to the state what its mode asks for.
ModeApplied ==
    Handles(IdMode) =>
        LET mode == ModeOf(handled'[Len(handled')].value)
            vc == ModeValues(mode)[1]
            ca == ModeValues(mode)[2]
        IN  IF mode \in {1, 2, 3, 5}
            THEN /\ state' = [state EXCEPT !.VehicleConnected = vc, !.ChargingActive = ca]
                 /\ informed' = <<<<"VehicleConnected", vc>>, <<"ChargingActive", ca>>>>
            ELSE /\ state' = state
                 /\ informed' = <<>>
                 /\ inFlight' = inFlight

\* C27: handleChargerState for state id 710 sets (VehicleConnected,
\* ChargingActive) to (0,0) for mode 1, (1,0) for modes 2 and 5 and (1,1) for
\* mode 3; a value that does not parse to a non-zero integer counts as mode
\* 1; any other mode leaves both values unchanged and informs nobody.
C27_ModeTable == [][ModeApplied]_vars

\* Mode 3, then the unknown mode 4, which changed nothing and informed
\* nobody.
C27_Witness ==
    /\ Len(handled) = 2
    /\ handled[1].id = IdMode /\ handled[1].value = Str(<<51>>)
    /\ handled[2].id = IdMode /\ handled[2].value = Str(<<52>>)
    /\ state.VehicleConnected = 1 * Unit
    /\ state.ChargingActive = 1 * Unit
    /\ informed = <<>>
    /\ Cardinality(inFlight) = 2

\* C28: ChargingActive = 1 implies VehicleConnected = 1 in the state
\* getAllStates returns, after any sequence of handleChargerState calls on a
\* new ChargerState.
C28_ActiveImpliesConnected ==
    state.ChargingActive = 1 * Unit => state.VehicleConnected = 1 * Unit

\* Charging was active (mode 3) and the vehicle then left (mode 1).
C28_Witness ==
    /\ Len(handled) = 3
    /\ handled[2].id = IdMode /\ handled[2].value = Str(<<51>>)
    /\ handled[3].id = IdMode /\ handled[3].value = Str(<<49>>)
    /\ state.ChargingActive = 0
    /\ state.VehicleConnected = 0

\* The kilowatts a ValueAsString of the calls above stands for: 1.5, 5,
\* -0.1, and 0 for what is no number.
KwOf(v) ==
    IF v = Str(<<49, 53, 48, 48>>) THEN Unit + Unit \div 2
    ELSE IF v = Str(<<53, 48, 48, 48>>) THEN 5 * Unit
    ELSE IF v = Str(<<45, 49, 48, 48>>) THEN 0 - (Unit \div 10)
    ELSE 0

PowerHandled == \E i \in 1..Len(handled) : handled[i].id = IdPower

\* A call for state id 513 sets the current power to w/1000 and the
\* assigned power to the larger of 4 and w/1000.
PowerApplied ==
    Handles(IdPower) =>
        LET kw == KwOf(handled'[Len(handled')].value)
        IN  state' = [state EXCEPT !.CurrentChargingPower = kw,
                                   !.AssignedChargingPower =
                                       IF kw < 4 * Unit THEN 4 * Unit ELSE kw]

AssignedSentAtLeastFour ==
    \A i \in 1..Len(informed) :
        informed[i][1] = "AssignedChargingPower" => informed[i][2] >= 4 * Unit

TokenOf(d) == IF d = ResponseA THEN Some(JStr(<<97>>)) ELSE Some(JStr(<<98>>))
LifetimeOf(d) == IF d = ResponseA THEN 1000 ELSE 2000

\* Everybody but c stands where they stood.
OthersWait(c) ==
    \A d \in Callers \ {c} : tpc'[d] = tpc[d] /\ tret'[d] = tret[d]

\* A getAccessToken call returns the cached token without a request while
\* the time is before tokenExpiresAt, and else sends a request and does not
\* return yet.
CallServed ==
    (tcalls' = tcalls + 1 /\ tokenExpiresAt # None) =>
        IF now < tokenExpiresAt[1]
        THEN /\ requests' = requests
             /\ accessToken' = accessToken
             /\ tokenExpiresAt' = tokenExpiresAt
             /\ \E c \in Callers :
                   tpc'[c] = "done" /\ tret'[c] = accessToken /\ OthersWait(c)
        ELSE /\ requests' = requests + 1
             /\ \E c \in Callers :
                   tpc'[c] = "refreshing" /\ tret'[c] = None /\ OthersWait(c)

\* A call that waited for a refresh returns when a response has come, and
\* for a token response it returns the token of that response, which is
\* then cached until the time of the response plus its expires_in seconds.
RefreshServed ==
    \A c \in Callers :
        (tpc[c] = "refreshing" /\ tpc'[c] = "done") =>
            /\ reply'[c] # None
            /\ reply'[c][1].ok
            /\ reply'[c][1].data \in {ResponseA, ResponseB} =>
                  /\ tret'[c] = TokenOf(reply'[c][1].data)
                  /\ accessToken' = TokenOf(reply'[c][1].data)
                  /\ tokenExpiresAt' = Some(now + LifetimeOf(reply'[c][1].data))
                  /\ requests' = requests

TokenServed == CallServed /\ RefreshServed

\* C30: getAccessToken returns the cached token without any request while
\* the time is before tokenExpiresAt, and refreshes before it returns when
\* the time is at or past tokenExpiresAt, as it is on the first call; after
\* a successful refresh it returns the token of the response and
\* tokenExpiresAt is the time of the refresh plus expires_in seconds.
C30_TokenCached ==
    /\ [](tcalls = 0 => tokenExpiresAt # None /\ now >= tokenExpiresAt[1])
    /\ [][TokenServed]_vars

\* One refresh at time 0 gave token b for 2 seconds; a second later the
\* other caller got b from the cache, with no second request.
C30_Witness ==
    /\ now = 1000
    /\ tokenExpiresAt = Some(2000)
    /\ requests = 1
    /\ tcalls = 2
    /\ \A c \in Callers : tpc[c] = "done" /\ tret[c] = Some(JStr(<<98>>))
    /\ accessToken = Some(JStr(<<98>>))

\* The token request of c ends in this step with a rejection (a request
\* error or a status that is not 2xx) or with a body that does not parse.
RefreshFails(c) ==
    /\ tpc[c] = "refreshing"
    /\ tpc'[c] # "refreshing"
    /\ ~reply'[c][1].ok \/ reply'[c][1].data = TextCut

\* A failed refresh makes getAccessToken reject and leaves the cached token
\* and its expiry as they were.
FailureKeepsCache ==
    \A c \in Callers :
        RefreshFails(c) =>
            /\ tpc'[c] = "failed"
            /\ tret'[c] = None
            /\ accessToken' = accessToken
            /\ tokenExpiresAt' = tokenExpiresAt

\* The getAccessToken call that follows a failed refresh sends a request.
RetriesAfterFailure == (tcalls' = tcalls + 1 /\ retry.due) => requests' = requests + 1

\* The same, unless the refresh of another call has succeeded since the
\* call that failed was made.
RetriesUnlessRefreshed ==
    (tcalls' = tcalls + 1 /\ retry.due /\ ~retry.won) => requests' = requests + 1

LaterCall == charger.first # None /\ charger'.calls = charger.calls + 1

\* A later call sends no chargers request and returns what the first
\* successful fetch obtained.
ReturnsFirstId ==
    LaterCall =>
        /\ charger'.requests = charger.requests
        /\ charger'.pc[charger'.by[1]] = "done"
        /\ charger'.ret[charger'.by[1]] = charger.first

\* A later call sends no chargers request and returns the cached ID, which
\* is not empty.
ReturnsCachedId ==
    LaterCall =>
        /\ charger'.requests = charger.requests
        /\ charger'.pc[charger'.by[1]] = "done"
        /\ charger'.ret[charger'.by[1]] = charger.chargerId
        /\ Truthy(charger.chargerId)

\* The cached ID changes only when a pending fetch succeeds, to the Id
\* that fetch obtained.
CachedIsLatestFetched ==
    charger'.chargerId # charger.chargerId =>
        \E c \in Callers :
            /\ charger.pc[c] = "fetching"
            /\ charger'.pc[c] = "done"
            /\ charger'.ret[c] = charger'.chargerId

\* C32 as stated: getChargerId fetches the charger ID only while none is
\* cached: once one fetch has succeeded, every later getChargerId call
\* returns that same ID and makes no further request for it.
C32_FirstIdForGood == [][ReturnsFirstId]_vars

\* C32 amended: once one fetch has succeeded, every later getChargerId
\* call makes no request and returns the cached ID, which is the Id of the
\* latest fetch that succeeded: that of the first one unless a fetch of an
\* overlapping call, begun before, succeeded after it.
C32_CachedIdServed == [][ReturnsCachedId /\ CachedIsLatestFetched]_vars

\* One chargers request has been sent and has succeeded, and the call made
\* after it has returned the ID it obtained.
C32_Witness ==
    /\ charger.first # None
    /\ charger.requests = 1
    /\ charger.calls = 2
    /\ charger.pc[charger.by[1]] = "done"
    /\ charger.ret[charger.by[1]] = charger.first

\* The replies C33 lists: a rejected request, a body that does not parse,
\* no Data, an empty Data, a first entry without Id.
FailingReplies ==
    {[ok |-> FALSE, data |-> <<>>]} \cup
    {[ok |-> TRUE, data |-> d] :
        d \in {TextCut, TextEmptyObject, ChargersNone, ChargersNoId}}

\* A fetch that fails makes getChargerId reject with 'Failed to fetch
\* charger ID'.
FailureRejects ==
    \A c \in Callers, r \in FailingReplies :
        FetchEnds(c, r) =>
            /\ charger'.pc[c] = "failed"
            /\ charger'.err[c] = "Failed to fetch charger ID"
            /\ charger'.ret[c] = None

\* After a fetch that fails the cached ID is empty.
FailureLeavesEmpty ==
    \A c \in Callers, r \in FailingReplies :
        FetchEnds(c, r) => ~Truthy(charger'.chargerId)

\* A fetch that fails leaves the cached ID as it was.
FailureLeavesCache ==
    \A c \in Callers, r \in FailingReplies :
        FetchEnds(c, r) => charger'.chargerId = charger.chargerId

\* The getChargerId call made with a failure as the last thing that
\* happened.
CallAfterFailure == charger'.calls = charger.calls + 1 /\ charger.retry.due

\* That call enters fetchChargerId.
FetchesAfterFailure ==
    CallAfterFailure => charger'.pc[charger'.by[1]] \in {"token", "fetching"}

\* The same unless a fetch has succeeded since the call that failed was
\* made; the cached ID is returned then.
FetchesUnlessCached ==
    CallAfterFailure =>
        IF charger.retry.won
        THEN /\ charger'.pc[charger'.by[1]] = "done"
             /\ charger'.ret[charger'.by[1]] = charger.chargerId
        ELSE /\ ~Truthy(charger.chargerId)
             /\ charger'.pc[charger'.by[1]] \in {"token", "fetching"}

\* C33 as stated: when fetching the charger ID fails (request error,
\* unparsable response, Data not a non-empty array, or first entry without
\* Id), getChargerId rejects with 'Failed to fetch charger ID', the cached
\* ID stays empty, and the next getChargerId call attempts the fetch again.
C33_FailedFetchRetried ==
    [][FailureRejects /\ FailureLeavesEmpty /\ FetchesAfterFailure]_vars

\* C33 amended: when fetching the charger ID fails, getChargerId rejects
\* with 'Failed to fetch charger ID' and the cached ID is left as it was;
\* the next getChargerId call attempts the fetch again, the cached ID being
\* empty, unless the fetch of an overlapping call has succeeded since the
\* failing call was made, and then it returns the cached ID.
C33_FailedFetchRetriedUnlessCached ==
    [][FailureRejects /\ FailureLeavesCache /\ FetchesUnlessCached]_vars

\* A caller's fetch has failed, nothing is cached, and the same caller's
\* next call has sent the second chargers request.
C33_Witness ==
    \E c \in Callers :
        /\ charger.pc[c] = "fetching"
        /\ \A d \in Callers \ {c} : charger.pc[d] = "idle"
        /\ charger.calls = 2
        /\ charger.requests = 2
        /\ ~Truthy(charger.chargerId)

\* The step ran the catch block of the for loop.
MessageFailed ==
    /\ logs' # logs
    /\ Len(logs') >= 2
    /\ logs'[Len(logs') - 1].level = "error"
    /\ logs'[Len(logs') - 1].text = "Error processing message: %s"

\* The catch block goes back to the for loop with the rest of the batch as
\* it was.
FailureKeepsBatch ==
    MessageFailed =>
        /\ ppc' = "loop"
        /\ batch' = batch
        /\ cur' = cur

\* The message processed next is the first of the rest of the batch.
TakenInOrder ==
    (cur' # cur /\ cur' # None) =>
        /\ ppc = "loop"
        /\ batch # <<>>
        /\ cur' = Some(Head(batch))
        /\ batch' = Tail(batch)
        /\ ppc' = "decode"

\* The loop is never stuck between messages: the next message of the batch
\* can be taken, and after the last one receiveMessages is called again.
LoopGoesOn ==
    /\ (ppc = "loop" /\ batch # <<>>) => ENABLED BeginMessage
    /\ (ppc = "loop" /\ batch = <<>>) => ENABLED BatchDone
    /\ ppc = "receive" => ENABLED ReceiveNone
    /\ (ppc = "receive" /\ queue # {} /\ deliveries < MaxDeliveries) => ENABLED Receive

\* C34: a failure while processing one message of a received batch
\* (decode, JSON parse, state handling or completeMessage) does not stop the
\* receive loop: every later message of the same batch and every later
\* batch is still processed, in the order received.
C34_FailureDoesNotStopLoop ==
    /\ [][FailureKeepsBatch /\ TakenInOrder]_vars
    /\ []LoopGoesOn

\* The decoder rejected the first message, which stays on the subscription,
\* and the second message delivered has been handled and is being completed.
C34_Witness ==
    /\ body[1] = <<2>>
    /\ 1 \in queue
    /\ deliveries = 2
    /\ cur = Some(2)
    /\ ppc = "complete"
    /\ called
    /\ Len(handled) = 1

\* messageDecoder has returned no element, or a first element that has no
\* text or the empty text, and processMessages goes on from there.
DecodedWithoutText ==
    /\ ppc = "decode"
    /\ pc = "done"
    /\ returned # None
    /\ \/ returned[1] = <<>>
       \/ returned[1][1].text = None
       \/ returned[1][1].text = Some(<<>>)
    /\ ppc' # ppc

\* completeMessage is called, after the warning and nothing else.
Acknowledged ==
    /\ called'
    /\ ppc' = "complete"
    /\ logs' = Append(logs, Log("warn", "Decoded message does not contain expected text."))

\* ChargerState is as it was: no value, total or file is written, no
\* handleChargerState call is made and nothing is sent to the Miniserver.
NoChargerStateChange ==
    /\ state' = state
    /\ cumulativeEnergyDelivered' = cumulativeEnergyDelivered
    /\ file' = file
    /\ handled' = handled
    /\ informed' = informed
    /\ inFlight' = inFlight

\* C35: a message that decodes successfully but yields no elements, or
\* whose first element has no text or empty text, is acknowledged
\* (completeMessage is called) and changes no charger state.
C35_NoTextAcknowledged ==
    [][DecodedWithoutText => (Acknowledged /\ NoChargerStateChange)]_vars

\* A message whose one element has the empty text has been decoded and
\* completeMessage has been called for it with the charger state untouched.
C35_Witness ==
    /\ cur # None
    /\ body[cur[1]] = BodyWithText(Some(<<>>))
    /\ returned # None
    /\ Len(returned[1]) = 1
    /\ returned[1][1].text = Some(<<>>)
    /\ ppc = "complete"
    /\ called
    /\ state = DefaultState
    /\ handled = <<>>
====
